---- MODULE Spec2Model ----
(***************************************************************************)
(* Hierarchical block nesting engine of the exam-question editor.          *)
(*                                                                         *)
(*   - the batch side: part-filter.lua, the pandoc filter that turns Divs   *)
(*     marked as parts into \question / \part / \subpart / \subsubpart      *)
(*     commands wrapped in parts / subparts / subsubparts environments;     *)
(*   - the interactive side: the PartIndent / PartOutdent commands of the   *)
(*     ProseMirror part node (nodes/part/part.ts and its block* variant),    *)
(*     the PartInsert / SolutionInsert commands, the plugin that derives   *)
(*     the level of a part from its ancestors, the pandoc writer of the    *)
(*     nodes, and the exam_block variant that stores the level instead.    *)
(*                                                                         *)
(* Strings whose characters the code inspects (attribute values, raw tex)  *)
(* are sequences of symbols: a literal of the source is one symbol, every  *)
(* character of an attribute value is one symbol.  An optional value (a    *)
(* Lua nil, a missing attribute) is a sequence of length 0 or 1.           *)
(***************************************************************************)
EXTENDS Integers, Sequences, FiniteSets, TLC

VARIABLES
    input,      \* batch: doc.blocks handed to Pandoc(doc)
    transformed,\* batch: doc.blocks after transform_blocks (line 174)
    output,     \* batch: doc.blocks when Pandoc(doc) returns (line 235)
    bpc,        \* batch: "start" before the filter ran, "done" after
    schema,     \* editor: content expression of the part node
    doc,        \* editor: the committed document, as its token sequence
    anchor,     \* editor: state.selection.anchor
    head,       \* editor: state.selection.head
    call,       \* editor: the command that ran last and whether it got a dispatch function
    ret,        \* editor: what it returned: "true", "false", "throws"
    dispatched, \* editor: the documents the last command dispatched, in order
    pre,        \* editor: document and selection before the last command
    origin,     \* editor: the state a committed indent started from, when the last
                \* command ran right after that indent; Nil otherwise
    decorations \* editor: the state of the part-structure-level plugin

bvars == <<input, transformed, output, bpc>>
evars == <<schema, doc, anchor, head, call, ret, dispatched, pre, origin, decorations>>
vars == <<input, transformed, output, bpc, schema, doc, anchor, head, call, ret, dispatched,
          pre, origin, decorations>>

(***************************************************************************)
(* Bounds of the model.                                                    *)
(***************************************************************************)
MaxBlocks == 4      \* blocks of a batch input forest of arbitrary shape
MaxRow == 4         \* children of the one question of a "row" input
MaxChain == 5       \* nesting depth of a "chain" input
MaxNodes == 4       \* parts, solutions and paragraphs of an initial block* document
MaxStructNodes == 3 \* the same for an initial document of the part.ts schema
MaxPoints == 4      \* characters of a points attribute
MaxTitle == 2       \* characters of a title attribute
MaxAttrDepth == 3   \* depth of the part Div that carries the attributes
MaxStream == 5      \* top-level blocks of a stream with \begin{questions} markers
MaxContainers == 3  \* parts and solutions of a document the insert commands work on
MaxExamBlocks == 5  \* exam_blocks of an initial document of the stored-level variant

Nil == <<>>
Some(v) == <<v>>

RECURSIVE Flatten(_)
Flatten(ss) == IF ss = <<>> THEN <<>> ELSE Head(ss) \o Flatten(Tail(ss))

(***************************************************************************)
(* Pandoc blocks (the input and the output of part-filter.lua).            *)
(***************************************************************************)
AttrKeys == {"title", "points", "point", "pts", "p", "space", "data-space", "sp"}

NoAttrs == [k \in AttrKeys |-> Nil]

Para == [t |-> "Para"]

RawBlock(format, text) == [t |-> "RawBlock", format |-> format, text |-> text]

Div(content, identifier, classes, attributes) ==
    [t |-> "Div", identifier |-> identifier, classes |-> classes,
     attributes |-> attributes, content |-> content]

(* a or b of Lua: nil is false, every string (the empty one too) is true *)
LuaOr(a, b) == IF a # Nil THEN a ELSE b

IsSpace(c) == c \in {" ", "\t", "\n"}

IsDigit(c) == c \in {"0", "1", "2", "3", "4", "5", "6", "7", "8", "9"}

(* mutant: the level below subpart is forgotten *)
command_for_depth_NoSubsub(d) ==
    IF d <= 1 THEN "\\question"
    ELSE IF d = 2 THEN "\\part"
    ELSE "\\subpart"

command_for_depth(d) ==
    IF d <= 1 THEN "\\question"
    ELSE IF d = 2 THEN "\\part"
    ELSE IF d = 3 THEN "\\subpart"
    ELSE "\\subsubpart"

(* a test for the empty string only *)
has_text_NonEmpty(s) == s # Nil /\ s[1] # <<>>

(* s:match('%S') ~= nil on a string; a nil title is no string *)
has_text(s) ==
    /\ s # Nil
    /\ \E i \in 1..Len(s[1]) : ~IsSpace(s[1][i])

RECURSIVE SkipSpaces(_, _, _)
SkipSpaces(s, i, step) ==
    IF i >= 1 /\ i <= Len(s) /\ IsSpace(s[i]) THEN SkipSpaces(s, i + step, step) ELSE i

(* p:match('^%s*(.-)%s*$') *)
Trim(s) ==
    LET first == SkipSpaces(s, 1, 1)
        last == SkipSpaces(s, Len(s), -1)
    IN IF first > Len(s) THEN <<>> ELSE SubSeq(s, first, last)

RECURSIVE SkipDigits(_, _)
SkipDigits(s, i) ==
    IF i <= Len(s) /\ IsDigit(s[i]) THEN SkipDigits(s, i + 1) ELSE i

(* p:match('^%d+%.?%d*$') *)
MatchesPoints(s) ==
    LET a == SkipDigits(s, 1)
        b == IF a <= Len(s) /\ s[a] = "." THEN a + 1 ELSE a
        c == SkipDigits(s, b)
    IN a > 1 /\ c > Len(s)

(* a normalizer that hands back the bracket instead of the value *)
normalize_points_Bracketed(p) ==
    IF p = Nil THEN Nil
    ELSE LET t == Trim(p[1])
         IN IF MatchesPoints(t) THEN Some(<<"[">> \o t \o <<"]">>) ELSE Nil

normalize_points(p) ==
    IF p = Nil THEN Nil
    ELSE LET t == Trim(p[1])
         IN IF MatchesPoints(t) THEN Some(t) ELSE Nil

is_part_div(block) ==
    /\ block.t = "Div"
    /\ \/ "part" \in block.classes
       \/ block.identifier = "part"

is_solution_div(block) ==
    /\ block.t = "Div"
    /\ \/ "solution" \in block.classes
       \/ "examsolution" \in block.classes

env_for_child_depth(d) ==
    IF d = 2 THEN Some("parts")
    ELSE IF d = 3 THEN Some("subparts")
    ELSE IF d >= 4 THEN Some("subsubparts")
    ELSE Nil

BeginEnv(env) == RawBlock("tex", <<"\\begin{", env, "}">>)

(* mutant: the closing marker names a fixed environment *)
EndEnv_Fixed(env) == RawBlock("tex", <<"\\end{", "parts", "}">>)

EndEnv(env) == RawBlock("tex", <<"\\end{", env, "}">>)

(* lines 63-82: the command line of a part Div at depth new_depth *)
cmdline(b, new_depth) ==
    LET title == b.attributes["title"]
        points == normalize_points(
                      LuaOr(b.attributes["points"],
                      LuaOr(b.attributes["point"],
                      LuaOr(b.attributes["pts"], b.attributes["p"]))))
        bracket == IF points # Nil /\ points[1] # <<>>
                   THEN <<"[">> \o points[1] \o <<"]">>
                   ELSE <<>>
    IN IF new_depth = 1
       THEN IF has_text(title)
            THEN <<"\\titledquestion{">> \o title[1] \o <<"}">> \o bracket
            ELSE <<"\\question">> \o bracket
       ELSE <<command_for_depth(new_depth)>> \o bracket

(* a bracket for every space that is set, the empty string too *)
sbracket_Always(b) ==
    LET space == LuaOr(b.attributes["space"],
                 LuaOr(b.attributes["data-space"], b.attributes["sp"]))
    IN IF space # Nil THEN <<"[">> \o space[1] \o <<"]">> ELSE <<>>

(* lines 122-150: the [space] bracket of a solution Div *)
sbracket(b) ==
    LET space == LuaOr(b.attributes["space"],
                 LuaOr(b.attributes["data-space"], b.attributes["sp"]))
    IN IF space # Nil /\ space[1] # <<>>
       THEN <<"[">> \o space[1] \o <<"]">>
       ELSE <<>>

(* mutant: a run ends after its first part *)
RunEnd_One(child_blocks, k) == k + 1

(* lines 91-94: k, the index after the run of part Divs that starts at j *)
RECURSIVE RunEnd(_, _)
RunEnd(child_blocks, k) ==
    IF k <= Len(child_blocks) /\ is_part_div(child_blocks[k])
    THEN RunEnd(child_blocks, k + 1)
    ELSE k

RECURSIVE transform_blocks(_, _)
RECURSIVE BlockLoop(_, _, _, _)
RECURSIVE ChildLoop(_, _, _, _)
RECURSIVE RunLoop(_, _, _, _, _)

(* children handed on as they are *)
wrapper_children_Unchanged(b, current_depth) == b.content

(* line 159: the children of a Div that is neither part nor solution *)
wrapper_children(b, current_depth) == transform_blocks(b.content, current_depth)

(* a loop that stops one child early *)
RunLoop_Short(child_blocks, new_depth, x, last, out) ==
    IF x > last - 1 THEN out
    ELSE RunLoop(child_blocks, new_depth, x + 1, last,
                 out \o transform_blocks(<<child_blocks[x]>>, new_depth))

(* lines 99-104: for x = j, k - 1 *)
RunLoop(child_blocks, new_depth, x, last, out) ==
    IF x > last THEN out
    ELSE RunLoop(child_blocks, new_depth, x + 1, last,
                 out \o transform_blocks(<<child_blocks[x]>>, new_depth))

(* lines 85-116: while j <= #child_blocks *)
ChildLoop(child_blocks, new_depth, j, out) ==
    IF j > Len(child_blocks) THEN out
    ELSE LET cb == child_blocks[j] IN
         IF is_part_div(cb)
         THEN LET k == RunEnd(child_blocks, j)
                  env == env_for_child_depth(new_depth + 1)
                  out1 == IF env # Nil THEN Append(out, BeginEnv(env[1])) ELSE out
                  out2 == RunLoop(child_blocks, new_depth, j, k - 1, out1)
                  out3 == IF env # Nil THEN Append(out2, EndEnv(env[1])) ELSE out2
              IN ChildLoop(child_blocks, new_depth, k, out3)
         ELSE ChildLoop(child_blocks, new_depth, j + 1,
                        out \o transform_blocks(<<cb>>, new_depth))

(* lines 58-168: while i <= #blocks *)
BlockLoop(blocks, current_depth, i, out) ==
    IF i > Len(blocks) THEN out
    ELSE LET b == blocks[i] IN
         IF is_part_div(b)
         THEN LET new_depth == current_depth + 1
                  out1 == Append(out, RawBlock("tex", cmdline(b, new_depth)))
              IN BlockLoop(blocks, current_depth, i + 1,
                           ChildLoop(b.content, new_depth, 1, out1))
         ELSE IF b.t = "Div"
         THEN IF is_solution_div(b)
              THEN BlockLoop(blocks, current_depth, i + 1,
                       Append(Append(out, RawBlock("tex", <<"\\begin{", "solution", "}">> \o sbracket(b)))
                                  \o transform_blocks(b.content, current_depth),
                              RawBlock("tex", <<"\\end{", "solution", "}">>)))
              ELSE BlockLoop(blocks, current_depth, i + 1,
                       Append(out, Div(wrapper_children(b, current_depth),
                                       b.identifier, b.classes, b.attributes)))
         ELSE BlockLoop(blocks, current_depth, i + 1, Append(out, b))

transform_blocks(blocks, current_depth) == BlockLoop(blocks, current_depth, 1, <<>>)

(***************************************************************************)
(* Pandoc(doc), lines 173-237.                                             *)
(***************************************************************************)
IsRawTex(b) == b.t = "RawBlock" /\ b.format = "tex"

(* text:match('^\\begin%{questions%}%s*$'), and the same for \end *)
MatchesMarker(text, which) ==
    /\ Len(text) >= 3
    /\ SubSeq(text, 1, 3) = <<which, "questions", "}">>
    /\ \A i \in 4..Len(text) : IsSpace(text[i])

(* text:match('^\\titledquestion') or text:match('^\\question') *)
StartsQuestion(text) ==
    /\ Len(text) >= 1
    /\ text[1] \in {"\\titledquestion{", "\\question"}

(* lines 186-193: j, the index of the first \end{questions} after i, or #blocks + 1 *)
RECURSIVE InsideEnd(_, _)
InsideEnd(blocks, j) ==
    IF j <= Len(blocks)
       /\ ~(IsRawTex(blocks[j]) /\ MatchesMarker(blocks[j].text, "\\end{"))
    THEN InsideEnd(blocks, j + 1)
    ELSE j

(* a search that never finds a question *)
FirstQuestion_None(inside, k) == 0

(* lines 195-204: firstIdx, 0 for nil *)
RECURSIVE FirstQuestion(_, _)
FirstQuestion(inside, k) ==
    IF k > Len(inside) THEN 0
    ELSE IF IsRawTex(inside[k]) /\ StartsQuestion(inside[k].text) THEN k
    ELSE FirstQuestion(inside, k + 1)

RECURSIVE RelocateLoop(_, _, _)
RelocateLoop(blocks, i, out) ==
    IF i > Len(blocks) THEN out
    ELSE LET b == blocks[i] IN
         IF IsRawTex(b) /\ MatchesMarker(b.text, "\\begin{")
         THEN LET j == InsideEnd(blocks, i + 1)
                  inside == SubSeq(blocks, i + 1, j - 1)
                  firstIdx == FirstQuestion(inside, 1)
                  out1 == IF firstIdx > 1
                          THEN out \o SubSeq(inside, 1, firstIdx - 1) \o <<b>>
                                   \o SubSeq(inside, firstIdx, Len(inside))
                          ELSE out \o <<b>> \o inside
              IN IF j <= Len(blocks)
                 THEN RelocateLoop(blocks, j + 1, Append(out1, blocks[j]))
                 ELSE RelocateLoop(blocks, j, out1)
         ELSE RelocateLoop(blocks, i + 1, Append(out, b))

relocate_questions_preface(blocks) == RelocateLoop(blocks, 1, <<>>)

(***************************************************************************)
(* The inputs of the batch side.                                           *)
(***************************************************************************)
PartDiv(content) == Div(content, "", {"part"}, NoAttrs)

SolutionDiv(content) == Div(content, "", {"solution"}, NoAttrs)

WrapperDiv(content) == Div(content, "", {"cell"}, NoAttrs)

MkBlock(kind, content) ==
    IF kind = "part" THEN PartDiv(content)
    ELSE IF kind = "solution" THEN SolutionDiv(content)
    ELSE IF kind = "div" THEN WrapperDiv(content)
    ELSE Para

(* every forest of exactly n blocks *)
RECURSIVE Forests(_)
Forests(n) ==
    IF n = 0 THEN {<<>>}
    ELSE UNION { UNION { { <<MkBlock(kind, kids)>> \o rest :
                               kids \in (IF kind = "para" THEN (IF k = 1 THEN {<<>>} ELSE {})
                                         ELSE Forests(k - 1)),
                               rest \in Forests(n - k) } :
                         kind \in {"part", "solution", "div", "para"} } :
                 k \in 1..n }

(* one question over a row of n leaf children *)
RECURSIVE Rows(_)
Rows(n) ==
    IF n = 0 THEN {<<>>}
    ELSE { <<MkBlock(kind, <<>>)>> \o rest :
               kind \in {"part", "solution", "para"}, rest \in Rows(n - 1) }

(* a nest of n blocks, one inside the other *)
RECURSIVE Chains(_)
Chains(n) ==
    IF n = 0 THEN {<<>>}
    ELSE { <<MkBlock(kind, inner)>> :
               kind \in {"part", "solution", "div"}, inner \in Chains(n - 1) }

BatchInputs ==
    UNION { Forests(n) : n \in 0..MaxBlocks }
    \cup UNION { { <<PartDiv(row)>> : row \in Rows(n) } : n \in 0..MaxRow }
    \cup UNION { Chains(n) : n \in 0..MaxChain }


(***************************************************************************)
(* The batch run: one document through the filter.                         *)
(***************************************************************************)
EditorIdle ==
    /\ schema = "block*"
    /\ doc = <<>>
    /\ anchor = 0
    /\ head = 0
    /\ call = [cmd |-> "none", dispatch |-> FALSE]
    /\ ret = "none"
    /\ dispatched = <<>>
    /\ pre = [doc |-> <<>>, anchor |-> 0, head |-> 0]
    /\ origin = Nil
    /\ decorations = {}

InitBatch ==
    /\ input \in BatchInputs
    /\ transformed = <<>>
    /\ output = <<>>
    /\ bpc = "start"
    /\ EditorIdle

Pandoc ==
    /\ bpc = "start"
    /\ transformed' = transform_blocks(input, 0)
    /\ output' = relocate_questions_preface(transform_blocks(input, 0))
    /\ bpc' = "done"
    /\ UNCHANGED <<input, schema, doc, anchor, head, call, ret, dispatched, pre, origin,
                   decorations>>

NextBatch == Pandoc

SpecBatch == InitBatch /\ [][NextBatch]_vars


(***************************************************************************)
(* Inputs with attributes.                                                 *)
(***************************************************************************)
Strings(chars, n) == UNION { [1..m -> chars] : m \in 0..n }

PointChars == {"2", "5", ".", "i", " "}

TitleChars == {" ", "Warm-up"}

Titles == {Nil} \cup { Some(t) : t \in Strings(TitleChars, MaxTitle) }

AttrPart(title, key, value, content) ==
    Div(content, "", {"part"}, [NoAttrs EXCEPT !["title"] = title, ![key] = value])

AttrSolution(key, value, content) ==
    Div(content, "", {"solution"}, [NoAttrs EXCEPT ![key] = value])

(* block b under d - 1 part Divs: a part Div b is at depth d *)
RECURSIVE AtDepth(_, _)
AtDepth(b, d) == IF d <= 1 THEN <<b>> ELSE <<PartDiv(AtDepth(b, d - 1))>>

AttrInputs ==
    { AtDepth(AttrPart(Nil, "points", Some(v), <<>>), d) :
          v \in Strings(PointChars, MaxPoints), d \in 1..MaxAttrDepth }
    \cup { <<Div(<<>>, "", {"part"},
                 [NoAttrs EXCEPT !["points"] = a, !["point"] = b, !["pts"] = c, !["p"] = e])>> :
               a \in {Nil, Some(<<>>), Some(<<"2">>), Some(<<"i">>)},
               b \in {Nil, Some(<<"5">>)},
               c \in {Nil, Some(<<"2", ".">>), Some(<<"i">>)},
               e \in {Nil, Some(<<"2", "5">>)} }
    \cup { AtDepth(AttrPart(t, "points", v, kids), d) :
               t \in Titles,
               v \in {Nil, Some(<<"2", ".", "5">>), Some(<<"2", "i">>)},
               kids \in {<<>>, <<Para>>},
               d \in 1..MaxAttrDepth }
    \cup { AtDepth(AttrSolution(key, v, kids), d) :
               key \in {"space", "data-space", "sp"},
               v \in {Nil, Some(<<>>), Some(<<"2", "i">>), Some(<<" ">>)},
               kids \in {<<>>, <<Para>>, <<PartDiv(<<>>)>>, <<PartDiv(<<>>), PartDiv(<<>>)>>},
               d \in 1..(MaxAttrDepth + 1) }

InitAttr ==
    /\ input \in AttrInputs
    /\ transformed = <<>>
    /\ output = <<>>
    /\ bpc = "start"
    /\ EditorIdle

SpecAttr == InitAttr /\ [][NextBatch]_vars

(***************************************************************************)
(* Top-level streams around the questions environment.                     *)
(***************************************************************************)
BeginQuestions == RawBlock("tex", <<"\\begin{", "questions", "}">>)

EndQuestions == RawBlock("tex", <<"\\end{", "questions", "}">>)

StreamItems == {BeginQuestions, EndQuestions, Para, PartDiv(<<>>), WrapperDiv(<<PartDiv(<<>>)>>)}

StreamInputs == Strings(StreamItems, MaxStream)

InitRelocate ==
    /\ input \in StreamInputs
    /\ transformed = <<>>
    /\ output = <<>>
    /\ bpc = "start"
    /\ EditorIdle

SpecRelocate == InitRelocate /\ [][NextBatch]_vars

(***************************************************************************)
(* The earlier filter, src/unnamed/part_000: no normalize_points, no       *)
(* solution environment, no relocation, and a title on every level.        *)
(***************************************************************************)
(* part_000 lines 38-60 *)
cmdline_000(b, new_depth) ==
    LET title == b.attributes["title"]
        points == LuaOr(b.attributes["points"],
                  LuaOr(b.attributes["point"],
                  LuaOr(b.attributes["pts"], b.attributes["p"])))
        bracket == IF points # Nil /\ points[1] # <<>>
                   THEN <<"[">> \o points[1] \o <<"]">>
                   ELSE <<>>
        titled == title # Nil /\ title[1] # <<>>
    IN IF new_depth = 1
       THEN IF titled
            THEN <<"\\titledquestion">> \o bracket \o <<"{">> \o title[1] \o <<"}">>
            ELSE <<"\\question">> \o bracket
       ELSE IF titled
            THEN <<"\\part">> \o bracket \o <<" ">> \o title[1]
            ELSE <<command_for_depth(new_depth)>> \o bracket

RECURSIVE transform_blocks_000(_, _)
RECURSIVE BlockLoop_000(_, _, _, _)
RECURSIVE ChildLoop_000(_, _, _, _)
RECURSIVE RunLoop_000(_, _, _, _, _)

(* part_000 lines 77-82 *)
RunLoop_000(child_blocks, new_depth, x, last, out) ==
    IF x > last THEN out
    ELSE RunLoop_000(child_blocks, new_depth, x + 1, last,
                     out \o transform_blocks_000(<<child_blocks[x]>>, new_depth))

(* part_000 lines 64-94 *)
ChildLoop_000(child_blocks, new_depth, j, out) ==
    IF j > Len(child_blocks) THEN out
    ELSE LET cb == child_blocks[j] IN
         IF is_part_div(cb)
         THEN LET k == RunEnd(child_blocks, j)
                  env == env_for_child_depth(new_depth + 1)
                  out1 == IF env # Nil THEN Append(out, BeginEnv(env[1])) ELSE out
                  out2 == RunLoop_000(child_blocks, new_depth, j, k - 1, out1)
                  out3 == IF env # Nil THEN Append(out2, EndEnv(env[1])) ELSE out2
              IN ChildLoop_000(child_blocks, new_depth, k, out3)
         ELSE ChildLoop_000(child_blocks, new_depth, j + 1,
                            out \o transform_blocks_000(<<cb>>, new_depth))

(* part_000 lines 33-107 *)
BlockLoop_000(blocks, current_depth, i, out) ==
    IF i > Len(blocks) THEN out
    ELSE LET b == blocks[i] IN
         IF is_part_div(b)
         THEN LET new_depth == current_depth + 1
                  out1 == Append(out, RawBlock("tex", cmdline_000(b, new_depth)))
              IN BlockLoop_000(blocks, current_depth, i + 1,
                               ChildLoop_000(b.content, new_depth, 1, out1))
         ELSE IF b.t = "Div"
         THEN BlockLoop_000(blocks, current_depth, i + 1,
                  Append(out, Div(transform_blocks_000(b.content, current_depth),
                                  b.identifier, b.classes, b.attributes)))
         ELSE BlockLoop_000(blocks, current_depth, i + 1, Append(out, b))

transform_blocks_000(blocks, current_depth) == BlockLoop_000(blocks, current_depth, 1, <<>>)

(* part_000 lines 112-115 *)
Pandoc_000 ==
    /\ bpc = "start"
    /\ transformed' = transform_blocks_000(input, 0)
    /\ output' = transform_blocks_000(input, 0)
    /\ bpc' = "done"
    /\ UNCHANGED <<input, schema, doc, anchor, head, call, ret, dispatched, pre, origin,
                   decorations>>

NextLegacy == Pandoc_000

SpecLegacy == InitAttr /\ [][NextLegacy]_vars

(***************************************************************************)
(* Reading an output stream.                                               *)
(***************************************************************************)
(* the blocks of a stream in document order, the content of Divs included *)
RECURSIVE InOrder(_)
InOrder(blocks) ==
    IF blocks = <<>> THEN <<>>
    ELSE LET b == Head(blocks)
         IN (IF b.t = "Div" THEN InOrder(b.content) ELSE <<b>>) \o InOrder(Tail(blocks))

IsBegin(b) == IsRawTex(b) /\ Len(b.text) >= 3 /\ b.text[1] = "\\begin{"

IsEnd(b) == IsRawTex(b) /\ Len(b.text) >= 3 /\ b.text[1] = "\\end{"

RoleCommands == {"\\question", "\\titledquestion{", "\\part", "\\subpart", "\\subsubpart"}

IsCommand(b) == IsRawTex(b) /\ Len(b.text) >= 1 /\ b.text[1] \in RoleCommands

(* the \begin and \end markers of a stream, in document order *)
Markers(blocks) == SelectSeq(InOrder(blocks), LAMBDA b : IsBegin(b) \/ IsEnd(b))

(* the role commands of a stream, in document order *)
Commands(blocks) == SelectSeq(InOrder(blocks), IsCommand)

(* every \end closes the most recently opened \begin of the same name, none is left open *)
RECURSIVE Bracketed(_, _)
Bracketed(ms, stack) ==
    IF ms = <<>> THEN stack = <<>>
    ELSE LET m == Head(ms) IN
         IF IsBegin(m) THEN Bracketed(Tail(ms), <<m.text[2]>> \o stack)
         ELSE /\ stack # <<>>
              /\ Head(stack) = m.text[2]
              /\ Bracketed(Tail(ms), Tail(stack))

(* the depth of every part Div of a forest, in document order: 1 + its part ancestors *)
RECURSIVE PartDepths(_, _)
PartDepths(blocks, above) ==
    IF blocks = <<>> THEN <<>>
    ELSE LET b == Head(blocks)
         IN (IF is_part_div(b) THEN <<above + 1>> \o PartDepths(b.content, above + 1)
             ELSE IF b.t = "Div" THEN PartDepths(b.content, above)
             ELSE <<>>)
            \o PartDepths(Tail(blocks), above)

(***************************************************************************)
(* The grouping of a part's children, stated child by child.               *)
(***************************************************************************)
RoleOfDepth == [d \in 1..4 |-> <<"\\question", "\\part", "\\subpart", "\\subsubpart">>[d]]

EnvOfDepth == [d \in 2..4 |-> <<"", "parts", "subparts", "subsubparts">>[d]]

Clamp4(d) == IF d > 4 THEN 4 ELSE d

RECURSIVE Grouped(_, _)
Grouped(blocks, above) ==
    Flatten([i \in 1..Len(blocks) |->
        LET b == blocks[i] IN
        IF is_part_div(b)
        THEN LET kids == b.content
                 IsKidPart(j) == j >= 1 /\ j <= Len(kids) /\ is_part_div(kids[j])
                 env == EnvOfDepth[Clamp4(above + 2)]
             IN <<RawBlock("tex", cmdline(b, above + 1))>>
                \o Flatten([j \in 1..Len(kids) |->
                       (IF IsKidPart(j) /\ ~IsKidPart(j - 1) THEN <<BeginEnv(env)>> ELSE <<>>)
                       \o Grouped(<<kids[j]>>, above + 1)
                       \o (IF IsKidPart(j) /\ ~IsKidPart(j + 1) THEN <<EndEnv(env)>> ELSE <<>>)])
        ELSE IF is_solution_div(b)
        THEN <<RawBlock("tex", <<"\\begin{", "solution", "}">> \o sbracket(b))>>
             \o Grouped(b.content, above)
             \o <<RawBlock("tex", <<"\\end{", "solution", "}">>)>>
        ELSE IF b.t = "Div"
        THEN <<Div(Grouped(b.content, above), b.identifier, b.classes, b.attributes)>>
        ELSE <<b>>])

(* C1: every maximal run of consecutive part children of a part is emitted
   inside one begin/end pair that holds the output of exactly those children,
   and a child that is no part is emitted outside any pair of that parent, so
   a paragraph between two part children yields two pairs and a run of one
   child has its own pair. *)
C1_Grouping == bpc = "done" => transformed = Grouped(input, 0)

C1_Witness ==
    /\ bpc = "done"
    /\ input = <<PartDiv(<<PartDiv(<<>>), PartDiv(<<>>), Para, PartDiv(<<>>)>>)>>
    /\ transformed = <<RawBlock("tex", <<"\\question">>),
                       BeginEnv("parts"), RawBlock("tex", <<"\\part">>),
                       RawBlock("tex", <<"\\part">>), EndEnv("parts"),
                       Para,
                       BeginEnv("parts"), RawBlock("tex", <<"\\part">>), EndEnv("parts")>>

(* C2: the markers of the transformed stream, read in document order, are
   well bracketed: every \end closes the most recently opened \begin, with
   the same environment name, and no marker is left unmatched. *)
C2_WellBracketed == bpc = "done" => Bracketed(Markers(transformed), <<>>)

C2_Witness ==
    /\ bpc = "done"
    /\ \E i, j \in 1..Len(Markers(transformed)) :
          /\ i < j
          /\ Markers(transformed)[i].text = <<"\\begin{", "parts", "}">>
          /\ Markers(transformed)[j].text = <<"\\begin{", "solution", "}">>
          /\ \A k \in i..j : ~IsEnd(Markers(transformed)[k])

(* C3: the role command of a part depends only on its depth d = 1 + the
   number of its part ancestors, clamped at 4 (question, part, subpart,
   subsubpart); the environment opened before a run is the one of the run's
   depth (parts, subparts, subsubparts), and no other environment name than
   these and solution is emitted, however deep the nesting. *)
C3_RoleByDepth ==
    bpc = "done" =>
        LET depths == PartDepths(input, 0)
            cmds == Commands(transformed)
            flat == InOrder(transformed)
        IN /\ Len(cmds) = Len(depths)
           /\ \A i \in 1..Len(cmds) : cmds[i].text[1] = RoleOfDepth[Clamp4(depths[i])]
           /\ \A i \in 1..Len(flat) :
                 IsBegin(flat[i]) =>
                     \/ flat[i].text[2] = "solution"
                     \/ /\ i < Len(flat)
                        /\ IsCommand(flat[i + 1])
                        /\ \E d \in 2..4 : /\ flat[i].text[2] = EnvOfDepth[d]
                                           /\ flat[i + 1].text[1] = RoleOfDepth[d]

C3_Witness ==
    /\ bpc = "done"
    /\ \E i \in 1..Len(PartDepths(input, 0)) :
          /\ PartDepths(input, 0)[i] >= 5
          /\ Commands(transformed)[i].text = <<"\\subsubpart">>
    /\ \E i \in 1..Len(Markers(transformed)) :
          Markers(transformed)[i].text = <<"\\begin{", "subsubparts", "}">>


(***************************************************************************)
(* The editor document.                                                    *)
(*                                                                         *)
(* A ProseMirror document is held as its token sequence: one token where a *)
(* node opens, one where it closes.  Position p of the document lies after *)
(* its first p tokens, so the node that starts at position s opens with    *)
(* token s + 1 and node.nodeSize is the number of its tokens.  Every       *)
(* paragraph is empty.  A node carries an id (its pandoc attr id, or what  *)
(* tells one paragraph from the other) that moves with it.                 *)
(***************************************************************************)
FlatPart == "block*"                                     \* the block* variant of the node
StructuredPart == "part_title part_points part_content?" \* part.ts line 199

Schemas == {FlatPart, StructuredPart}

Tok(k, ty, id) == [k |-> k, ty |-> ty, id |-> id]

Min(a, b) == IF a < b THEN a ELSE b

RECURSIVE AncScan(_, _, _, _)
AncScan(d, pos, i, stack) ==
    IF i > pos THEN stack
    ELSE AncScan(d, pos, i + 1,
                 IF d[i].k = "open" THEN Append(stack, i)
                 ELSE SubSeq(stack, 1, Len(stack) - 1))

(* doc.resolve(pos): the open tokens of the nodes around pos, outermost
   first; $pos.depth is their number and $pos.node(k) the node of the k-th *)
Ancestors(d, pos) == AncScan(d, pos, 1, <<>>)

RECURSIVE CloseScan(_, _, _)
CloseScan(d, j, open) ==
    IF d[j].k = "open" THEN CloseScan(d, j + 1, open + 1)
    ELSE IF open = 1 THEN j
    ELSE CloseScan(d, j + 1, open - 1)

(* the close token of the node that opens with token i *)
MatchClose(d, i) == CloseScan(d, i + 1, 1)

nodeSize(d, i) == MatchClose(d, i) - i + 1

RECURSIVE ChildScan(_, _, _, _)
ChildScan(d, i, hi, acc) ==
    IF i > hi THEN acc
    ELSE ChildScan(d, MatchClose(d, i) + 1, hi, Append(acc, i))

(* parent.child(0..childCount-1), as the open tokens of the children; the
   parent is the node that opens with token pt, the document for pt = 0 *)
ChildrenOf(d, pt) ==
    IF pt = 0 THEN ChildScan(d, 1, Len(d), <<>>)
    ELSE ChildScan(d, pt + 1, MatchClose(d, pt) - 1, <<>>)

TypeAt(d, pt) == IF pt = 0 THEN "doc" ELSE d[pt].ty

isPart(d, pt) == TypeAt(d, pt) = "part"

RECURSIVE PartDepthScan(_, _, _)
PartDepthScan(d, anc, k) ==
    IF k < 1 THEN 0
    ELSE IF isPart(d, anc[k]) THEN k
    ELSE PartDepthScan(d, anc, k - 1)

(* findPartDepth: the depth of the innermost part around $from, 0 for null *)
findPartDepth(d, anc) == PartDepthScan(d, anc, Len(anc))

(* $from.node(depth), as its open token; the document at depth 0 *)
NodeAtDepth(anc, depth) == IF depth = 0 THEN 0 ELSE anc[depth]

RECURSIVE PosCursorLoop(_, _, _, _, _)
PosCursorLoop(d, kids, index, i, posCursor) ==
    IF i >= Len(kids) THEN -1
    ELSE IF i = index THEN posCursor
    ELSE PosCursorLoop(d, kids, index, i + 1, posCursor + nodeSize(d, kids[i + 1]))

(* nodeStartInParent($from, depth) *)
nodeStartInParent(d, anc, depth) ==
    LET parent == NodeAtDepth(anc, depth - 1)
        parentStart == parent                \* $from.start(depth - 1)
        kids == ChildrenOf(d, parent)
        index == Cardinality({i \in 1..Len(kids) : kids[i] < anc[depth]})  \* $from.index(depth - 1)
        found == PosCursorLoop(d, kids, index, 0, parentStart)
    IN [parent |-> parent, parentStart |-> parentStart, index |-> index, kids |-> kids,
        nodeStart |-> IF found = -1 THEN parentStart ELSE found]

(***************************************************************************)
(* The transaction steps the commands use.                                 *)
(***************************************************************************)
(* tr.delete(from, to) of a range that holds whole nodes *)
Delete(d, from, to) == SubSeq(d, 1, from) \o SubSeq(d, to + 1, Len(d))

(* tr.mapping.map(pos) after tr.delete(from, to) *)
MapThroughDelete(pos, from, to) ==
    IF pos <= from THEN pos
    ELSE IF pos >= to THEN pos - (to - from)
    ELSE from

(* a part that takes any block anywhere among its children *)
Admits_AnyBlock(d, pt, ty) == TypeAt(d, pt) # "paragraph"

(* whether the content expression of the node around a position lets a
   block of type ty stand there *)
Admits(d, pt, ty) ==
    LET parent == TypeAt(d, pt) IN
    IF parent = "paragraph" THEN FALSE
    ELSE IF parent = "part" THEN schema = FlatPart
    ELSE TRUE

(* where tr.insert(pos, node) puts the node: at pos when the node around pos
   admits it, and else (replaceStep fits the slice) in the nearest node
   around pos that admits it, after the nodes that end at pos are closed *)
RECURSIVE FitPos(_, _, _)
FitPos(d, pos, ty) ==
    LET anc == Ancestors(d, pos)
        pt == NodeAtDepth(anc, Len(anc))
    IN IF Admits(d, pt, ty) THEN pos
       ELSE IF pos + 1 = MatchClose(d, pt) THEN FitPos(d, pos + 1, ty)
       ELSE -1

(* tr.insert(pos, node) *)
(* an insertion that is lost *)
Insert_Lost(d, pos, node) == d

(* an insertion of a fresh node of the same type and id, without the content *)
Insert_Emptied(d, pos, node) ==
    SubSeq(d, 1, pos) \o <<node[1], node[Len(node)]>> \o SubSeq(d, pos + 1, Len(d))

Insert(d, pos, node) ==
    LET at == FitPos(d, pos, node[1].ty)
    IN IF at = -1 THEN d
       ELSE SubSeq(d, 1, at) \o node \o SubSeq(d, at + 1, Len(d))

(* TextSelection.create(doc, anchor, head) resolves both: a position outside
   the document is a RangeError *)
Resolvable(d, pos) == pos >= 0 /\ pos <= Len(d)

Max(a, b) == IF a > b THEN a ELSE b

False == [ret |-> "false", trs |-> <<>>]

(* the result of a command that got as far as building its transaction *)
Built(dispatch, newDoc, newAnchor, newHead) ==
    IF ~dispatch THEN [ret |-> "true", trs |-> <<>>]
    ELSE IF Resolvable(newDoc, newAnchor) /\ Resolvable(newDoc, newHead)
    THEN [ret |-> "true", trs |-> <<[doc |-> newDoc, anchor |-> newAnchor, head |-> newHead]>>]
    ELSE [ret |-> "throws", trs |-> <<>>]

(* a scan that takes the sibling right before the current part, whatever it is *)
NearestLoop_AnySibling(d, kids, index, i, nearest) ==
    IF i >= index THEN nearest ELSE kids[index]

(* lines 427-433: the nearest previous part sibling, 0 for null *)
RECURSIVE NearestLoop(_, _, _, _, _)
NearestLoop(d, kids, index, i, nearest) ==
    IF i >= index THEN nearest
    ELSE NearestLoop(d, kids, index, i + 1,
                     IF isPart(d, kids[i + 1]) THEN kids[i + 1] ELSE nearest)

(* lines 418-452 (and the Tab key, lines 495-527) *)
indent(st, dispatch) ==
    LET from == Min(st.anchor, st.head)
        anc == Ancestors(st.doc, from)
        depth == findPartDepth(st.doc, anc)
    IN IF depth = 0 THEN False
       ELSE LET nsp == nodeStartInParent(st.doc, anc, depth)
                nodeStart == nsp.nodeStart
            IN IF nsp.index <= 0 THEN False
               ELSE LET nearest == NearestLoop(st.doc, nsp.kids, nsp.index, 0, 0)
                    IN IF nearest = 0 THEN False
                       ELSE LET currentEnd == nodeStart + nodeSize(st.doc, nsp.kids[nsp.index + 1])
                                current == SubSeq(st.doc, nodeStart + 1, currentEnd)
                                insertInsidePrev == (nearest - 1) + nodeSize(st.doc, nearest) - 1
                                relAnchor == st.anchor - (nodeStart + 1)
                                relHead == st.head - (nodeStart + 1)
                                deleted == Delete(st.doc, nodeStart, currentEnd)
                                mappedInsert == MapThroughDelete(insertInsidePrev, nodeStart, currentEnd)
                                base == mappedInsert + 1
                            IN Built(dispatch, Insert(deleted, mappedInsert, current),
                                     Max(base, base + relAnchor), Max(base, base + relHead))

(* a parent lookup that is one level off: the current part itself *)
outdentParent_Self(anc, depth) == NodeAtDepth(anc, depth)

(* line 463: const parent = $from.node(depth - 1) *)
outdentParent(anc, depth) == NodeAtDepth(anc, depth - 1)

(* a position on the wrong side of the parent: before it *)
afterParent_Before(d, parent) == parent - 1

(* lines 468-469: $from.before(depth - 1) + parent.nodeSize *)
afterParent(d, parent) == (parent - 1) + nodeSize(d, parent)

(* lines 459-484 (and the Shift-Tab key, lines 531-556) *)
outdent(st, dispatch) ==
    LET from == Min(st.anchor, st.head)
        anc == Ancestors(st.doc, from)
        depth == findPartDepth(st.doc, anc)
    IN IF depth = 0 THEN False
       ELSE LET parent == outdentParent(anc, depth)
            IN IF ~isPart(st.doc, parent) THEN False
               ELSE LET nsp == nodeStartInParent(st.doc, anc, depth)
                        nodeStart == nsp.nodeStart
                        currentEnd == nodeStart + nodeSize(st.doc, nsp.kids[nsp.index + 1])
                        current == SubSeq(st.doc, nodeStart + 1, currentEnd)
                        relAnchor == st.anchor - (nodeStart + 1)
                        relHead == st.head - (nodeStart + 1)
                        deleted == Delete(st.doc, nodeStart, currentEnd)
                        mappedAfterParent == MapThroughDelete(afterParent(st.doc, parent), nodeStart,
                                                             currentEnd)
                        base == mappedAfterParent + 1
                    IN Built(dispatch, Insert(deleted, mappedAfterParent, current),
                             Max(base, base + relAnchor), Max(base, base + relHead))


(***************************************************************************)
(* The part-structure-level plugin.                                        *)
(***************************************************************************)
(* lines 571-576: the level of the part around $pos, counted from the nodes
   $pos.node(k) .. $pos.node(0) *)
RECURSIVE LevelLoop(_, _, _, _)
LevelLoop(d, anc, k, level) ==
    IF k < 0 THEN level
    ELSE LevelLoop(d, anc, k - 1,
                   IF isPart(d, NodeAtDepth(anc, k)) THEN level + 1 ELSE level)

(* lines 564-582: one node decoration for every part of the document *)
buildDecorations(d) ==
    { [from |-> i - 1, to |-> (i - 1) + nodeSize(d, i),
       level |-> LET anc == Ancestors(d, i)         \* doc.resolve(pos + 1)
                 IN LevelLoop(d, anc, Len(anc) - 1, 1)] :
        i \in {j \in 1..Len(d) : d[j].k = "open" /\ isPart(d, j)} }

(* a plugin state that is never built again *)
apply_Stale(docChanged, value, newDoc) == value

(* lines 623-626 *)
apply(docChanged, value, newDoc) ==
    IF ~docChanged THEN value ELSE buildDecorations(newDoc)


(***************************************************************************)
(* The documents the editor starts from.                                   *)
(***************************************************************************)
Shape(kind, kids) == [kind |-> kind, kids |-> kids]

(* every forest of exactly n parts, solutions and paragraphs *)
RECURSIVE Shapes(_)
Shapes(n) ==
    IF n = 0 THEN {<<>>}
    ELSE UNION { UNION { { <<Shape(kind, kids)>> \o rest :
                               kids \in (IF kind = "paragraph" THEN (IF k = 1 THEN {<<>>} ELSE {})
                                         ELSE Shapes(k - 1)),
                               rest \in Shapes(n - k) } :
                         kind \in {"part", "solution", "paragraph"} } :
                 k \in 1..n }

EmptyPara(id) == <<Tok("open", "paragraph", id), Tok("close", "paragraph", id)>>

(* the tokens of a forest; its nodes are numbered from next on, in document
   order.  A part of part.ts holds its children in its part_content, after
   a part_title and a part_points of one paragraph each (lines 377-394) *)
RECURSIVE Tokens(_, _, _)
Tokens(forest, next, sch) ==
    IF forest = <<>> THEN [toks |-> <<>>, next |-> next]
    ELSE LET n == Head(forest)
             inner == Tokens(n.kids, next + 1, sch)
             rest == Tokens(Tail(forest), inner.next, sch)
             body == IF n.kind = "part" /\ sch = StructuredPart
                     THEN <<Tok("open", "part_title", next)>> \o EmptyPara(next + 100)
                              \o <<Tok("close", "part_title", next)>>
                          \o <<Tok("open", "part_points", next)>> \o EmptyPara(next + 200)
                              \o <<Tok("close", "part_points", next)>>
                          \o <<Tok("open", "part_content", next)>> \o inner.toks
                              \o <<Tok("close", "part_content", next)>>
                     ELSE inner.toks
         IN [toks |-> <<Tok("open", n.kind, next)>> \o body \o <<Tok("close", n.kind, next)>>
                      \o rest.toks,
             next |-> rest.next]

InitialDocs(sch) ==
    { Tokens(f, 1, sch).toks :
        f \in UNION { Shapes(n) : n \in 1..(IF sch = FlatPart THEN MaxNodes ELSE MaxStructNodes) } }

(* the positions a text selection can end at: inside a paragraph *)
TextPositions(d) == { pos \in 1..Len(d) : d[pos].k = "open" /\ d[pos].ty = "paragraph" }

(***************************************************************************)
(* The editor: each command runs as one step on the committed state.       *)
(***************************************************************************)
BatchIdle ==
    /\ input = <<>>
    /\ transformed = <<>>
    /\ output = <<>>
    /\ bpc = "idle"

Init ==
    /\ BatchIdle
    /\ schema \in Schemas
    /\ doc \in InitialDocs(schema)
    /\ anchor \in TextPositions(doc)
    /\ head \in TextPositions(doc)
    /\ call = [cmd |-> "none", dispatch |-> FALSE]
    /\ ret = "none"
    /\ dispatched = <<>>
    /\ pre = [doc |-> <<>>, anchor |-> 0, head |-> 0]
    /\ origin = Nil
    /\ decorations = buildDecorations(doc)

State == [doc |-> doc, anchor |-> anchor, head |-> head]

(* running a command: view.dispatch(tr) commits the transaction's document
   and selection and lets the plugin apply the transaction, which holds the
   steps of the command (tr.docChanged); a command that dispatches nothing
   leaves the state alone *)
Run(cmd, dispatch, res) ==
    /\ call' = [cmd |-> cmd, dispatch |-> dispatch]
    /\ ret' = res.ret
    /\ dispatched' = res.trs
    /\ pre' = State
    /\ origin' = IF call.cmd = "indent" /\ dispatched # <<>> THEN Some(pre) ELSE Nil
    /\ IF res.trs # <<>>
       THEN LET tr == res.trs[Len(res.trs)]
            IN /\ doc' = tr.doc
               /\ anchor' = tr.anchor
               /\ head' = tr.head
               /\ decorations' = apply(TRUE, decorations, tr.doc)
       ELSE UNCHANGED <<doc, anchor, head, decorations>>
    /\ UNCHANGED <<input, transformed, output, bpc, schema>>

PartIndent == \E dispatch \in BOOLEAN : Run("indent", dispatch, indent(State, dispatch))

PartOutdent == \E dispatch \in BOOLEAN : Run("outdent", dispatch, outdent(State, dispatch))

TabKey == Run("indent", TRUE, indent(State, TRUE))

ShiftTabKey == Run("outdent", TRUE, outdent(State, TRUE))

Next == PartIndent \/ PartOutdent \/ TabKey \/ ShiftTabKey

Spec == Init /\ [][Next]_vars


(***************************************************************************)
(* The insert commands.                                                    *)
(***************************************************************************)
(* findSolutionDepth with a loop that looks at $from.node($from.depth - 1)
   only *)
SolutionDepthScan_ParentOnly(d, anc, k) ==
    IF k >= 2 /\ k = Len(anc) /\ TypeAt(d, anc[k - 1]) = "solution" THEN k - 1 ELSE 0

(* solution.ts lines 34-37 *)
RECURSIVE SolutionDepthScan(_, _, _)
SolutionDepthScan(d, anc, k) ==
    IF k < 1 THEN 0
    ELSE IF TypeAt(d, anc[k]) = "solution" THEN k
    ELSE SolutionDepthScan(d, anc, k - 1)

(* a check for an enclosing solution that never finds one *)
findSolutionDepth_Null(d, anc) == 0

(* findSolutionDepth: the depth of the innermost solution around $from, 0
   for null *)
findSolutionDepth(d, anc) == SolutionDepthScan(d, anc, Len(anc))

(* the ids of the nodes a command creates: past every id of the document *)
FreshId(d) ==
    LET ids == {0} \cup {d[i].id % 100 : i \in 1..Len(d)}
    IN 1 + (CHOOSE x \in ids : \A y \in ids : y <= x)

(* typeSolution.createAndFill({}, [inner]), solution.ts lines 141-143 *)
NewSolution(id) ==
    <<Tok("open", "solution", id)>> \o EmptyPara(id + 300) \o <<Tok("close", "solution", id)>>

(* typePart.createAndFill({title: '', points: ''}, children): the three
   children of part.ts lines 377-394, the one paragraph of the block*
   variant *)
NewPart(id, sch) ==
    <<Tok("open", "part", id)>>
    \o (IF sch = StructuredPart
        THEN <<Tok("open", "part_title", id)>> \o EmptyPara(id + 100)
                 \o <<Tok("close", "part_title", id)>>
             \o <<Tok("open", "part_points", id)>> \o EmptyPara(id + 200)
                 \o <<Tok("close", "part_points", id)>>
             \o <<Tok("open", "part_content", id)>> \o EmptyPara(id + 300)
                 \o <<Tok("close", "part_content", id)>>
        ELSE EmptyPara(id + 300))
    \o <<Tok("close", "part", id)>>

(* whether tr.replaceSelectionWith(node, false) of a cursor at pos comes down
   to one step that fits as it is: the cursor is in an (empty) paragraph of a
   node that takes the block in the paragraph's place, or between the
   children of a node that takes the block there *)
FitsAtCursor(d, pos, ty) ==
    LET anc == Ancestors(d, pos)
        pt == NodeAtDepth(anc, Len(anc))
    IN IF TypeAt(d, pt) = "paragraph"
       THEN Admits(d, NodeAtDepth(anc, Len(anc) - 1), ty)
       ELSE Admits(d, pt, ty)

(* tr.replaceSelectionWith(node, false) of a cursor at pos.  In an empty
   paragraph replaceRangeWith looks for no insert point (the parent has no
   content) and replaceRange finds the paragraph among the covered depths
   and replaces it whole; between blocks insertPoint is pos itself and the
   slice fits trivially *)
replaceSelectionWith(d, pos, node) ==
    LET anc == Ancestors(d, pos)
        pt == NodeAtDepth(anc, Len(anc))
    IN IF TypeAt(d, pt) = "paragraph"
       THEN SubSeq(d, 1, pt - 1) \o node \o SubSeq(d, MatchClose(d, pt) + 1, Len(d))
       ELSE SubSeq(d, 1, pos) \o node \o SubSeq(d, pos + 1, Len(d))

(* solution.ts lines 132-150 *)
insertSolution(st, dispatch) ==
    LET from == Min(st.anchor, st.head)
        anc == Ancestors(st.doc, from)
        depth == findPartDepth(st.doc, anc)
    IN IF depth = 0 THEN False
       ELSE IF findSolutionDepth(st.doc, anc) # 0 THEN False
       ELSE IF ~dispatch THEN [ret |-> "true", trs |-> <<>>]
       ELSE LET solution == NewSolution(FreshId(st.doc))
                insertPos == from
            IN Built(dispatch, replaceSelectionWith(st.doc, from, solution),
                     insertPos + 1, insertPos + 1)

(* part.ts lines 368-406 *)
insertPart(st, dispatch) ==
    IF ~dispatch THEN [ret |-> "true", trs |-> <<>>]
    ELSE LET part == NewPart(FreshId(st.doc), schema)
             insertPos == Min(st.anchor, st.head)
         IN Built(dispatch, replaceSelectionWith(st.doc, insertPos, part),
                  insertPos + 1, insertPos + 1)

(* the parts and solutions of a document *)
Containers(d) == {i \in 1..Len(d) : d[i].k = "open" /\ d[i].ty \in {"part", "solution"}}

(* the solutions around the node that opens with token i *)
SolutionsAround(d, i) ==
    LET anc == Ancestors(d, i - 1)
    IN {k \in 1..Len(anc) : d[anc[k]].ty = "solution"}

NestedSolutions(d) ==
    \E i \in 1..Len(d) : d[i].k = "open" /\ d[i].ty = "solution" /\ SolutionsAround(d, i) # {}

(* the editor starts with a cursor, in a document of at most MaxContainers
   parts and solutions, none of the solutions inside another *)
InitInsert ==
    /\ BatchIdle
    /\ schema \in Schemas
    /\ doc \in {d \in InitialDocs(schema) :
                  Cardinality(Containers(d)) <= MaxContainers /\ ~NestedSolutions(d)}
    /\ anchor \in TextPositions(doc)
    /\ head = anchor
    /\ call = [cmd |-> "none", dispatch |-> FALSE]
    /\ ret = "none"
    /\ dispatched = <<>>
    /\ pre = [doc |-> <<>>, anchor |-> 0, head |-> 0]
    /\ origin = Nil
    /\ decorations = buildDecorations(doc)

(* an insert command that dispatches runs while the document has room for
   one more node and the replacement is the one step above *)
Room(dispatch, ty) ==
    dispatch => /\ Cardinality(Containers(doc)) < MaxContainers
                /\ anchor = head
                /\ FitsAtCursor(doc, anchor, ty)

PartInsert ==
    \E dispatch \in BOOLEAN :
        /\ Room(dispatch, "part")
        /\ Run("insertPart", dispatch, insertPart(State, dispatch))

SolutionInsert ==
    \E dispatch \in BOOLEAN :
        /\ Room(dispatch /\ insertSolution(State, FALSE).ret = "true", "solution")
        /\ Run("insertSolution", dispatch, insertSolution(State, dispatch))

NextInsert == PartInsert \/ SolutionInsert \/ PartIndent \/ PartOutdent \/ TabKey \/ ShiftTabKey

SpecInsert == InitInsert /\ [][NextInsert]_vars


(***************************************************************************)
(* From the editor to the filter: the document is written as pandoc blocks *)
(* and the filter runs on them.                                            *)
(***************************************************************************)
(* output.writeNodes over the children kids: a part is written as a Div of
   class part that holds the children of its part_content (part.ts lines
   332-358; all its children in the block* variant), a solution as a Div of
   class solution (solution.ts lines 109-123), a paragraph as a Para *)
RECURSIVE writeNodes(_, _, _)
writeNodes(d, kids, sch) ==
    IF kids = <<>> THEN <<>>
    ELSE LET i == Head(kids)
             own == ChildrenOf(d, i)
             block ==
                 IF d[i].ty = "part"
                 THEN Div(IF sch = StructuredPart
                          THEN Flatten([k \in 1..Max(0, Len(own) - 2) |->
                                           writeNodes(d, ChildrenOf(d, own[k + 2]), sch)])
                          ELSE writeNodes(d, own, sch),
                          ToString(d[i].id), {"part"}, NoAttrs)
                 ELSE IF d[i].ty = "solution"
                 THEN Div(writeNodes(d, own, sch), ToString(d[i].id), {"solution"}, NoAttrs)
                 ELSE Para
         IN <<block>> \o writeNodes(d, Tail(kids), sch)

(* a nest of n parts and solutions, one inside the other *)
RECURSIVE ShapeChains(_)
ShapeChains(n) ==
    IF n = 0 THEN {<<>>}
    ELSE { <<Shape(kind, inner)>> : kind \in {"part", "solution"}, inner \in ShapeChains(n - 1) }

RoleDocs(sch) ==
    InitialDocs(sch) \cup { Tokens(c, 1, sch).toks : c \in UNION { ShapeChains(n) : n \in 1..MaxChain } }

InitRoles ==
    /\ schema \in Schemas
    /\ doc \in RoleDocs(schema)
    /\ anchor = 0
    /\ head = 0
    /\ call = [cmd |-> "none", dispatch |-> FALSE]
    /\ ret = "none"
    /\ dispatched = <<>>
    /\ pre = [doc |-> <<>>, anchor |-> 0, head |-> 0]
    /\ origin = Nil
    /\ decorations = buildDecorations(doc)
    /\ input = writeNodes(doc, ChildrenOf(doc, 0), schema)
    /\ transformed = <<>>
    /\ output = <<>>
    /\ bpc = "start"

SpecRoles == InitRoles /\ [][NextBatch]_vars


(***************************************************************************)
(* The exam_block variant of the node, which stores its level.  Its        *)
(* tokens carry the level attribute next to the id; the debugId and        *)
(* parentDebugId that the appended transaction sets (lines 687-713) are    *)
(* left out, no command reads them.                                        *)
(***************************************************************************)
ExamBlock == "block+"                                   \* line 416

ExamTok(k, id, level) == [k |-> k, ty |-> "exam_block", id |-> id, level |-> level]

isExam(d, pt) == TypeAt(d, pt) = "exam_block"

(* line 517 *)
clampLevel(level) == Max(1, Min(4, level))

(* type.createChecked({...attrs, level}, content, marks) of the node whose
   tokens are sub *)
WithLevel(sub, level) ==
    <<ExamTok("open", sub[1].id, level)>> \o SubSeq(sub, 2, Len(sub) - 1)
        \o <<ExamTok("close", sub[1].id, level)>>

(* lines 519-536, on the tokens of one node *)
RECURSIVE bumpLevels(_, _)
bumpLevels(node, delta) ==
    LET kids == ChildrenOf(node, 1)
        children ==
            Flatten([k \in 1..Len(kids) |->
                LET child == SubSeq(node, kids[k], MatchClose(node, kids[k])) IN
                IF child[1].ty = "exam_block"
                THEN bumpLevels(WithLevel(child, clampLevel(child[1].level + delta)), 0)
                ELSE child])
    IN IF node[1].ty = "exam_block"
       THEN <<ExamTok("open", node[1].id, clampLevel(node[1].level + delta))>> \o children
                \o <<ExamTok("close", node[1].id, clampLevel(node[1].level + delta))>>
       ELSE <<node[1]>> \o children \o <<node[Len(node)]>>

RECURSIVE ExamDepthScan(_, _, _)
ExamDepthScan(d, anc, k) ==
    IF k < 1 THEN 0
    ELSE IF isExam(d, anc[k]) THEN k
    ELSE ExamDepthScan(d, anc, k - 1)

(* lines 538-544: the depth of the innermost exam_block around $from, 0 for
   null *)
findCurrentDepth(d, anc) == ExamDepthScan(d, anc, Len(anc))

(* Selection.near of a position: the position itself inside a paragraph,
   else the first paragraph after it, else the last one before it *)
SelectionNear(d, pos) ==
    LET paras == {i \in 1..Len(d) : d[i].k = "open" /\ d[i].ty = "paragraph"}
        after == {i \in paras : i > pos}
        before == {i \in paras : i <= pos}
    IN IF pos \in paras THEN pos
       ELSE IF after # {} THEN CHOOSE i \in after : \A j \in after : i <= j
       ELSE IF before # {} THEN CHOOSE i \in before : \A j \in before : j <= i
       ELSE 0

(* the transaction of both commands: tr.delete(from, to), which leaves a
   paragraph where an exam_block would be left without content (block+),
   tr.insert(tr.mapping.map(pos), node), and the selection mapped through
   both steps; a position outside the document is a RangeError *)
Moved(st, dispatch, from, to, pos, node, sole) ==
    IF ~dispatch THEN [ret |-> "true", trs |-> <<>>]
    ELSE LET d == st.doc
             fill == IF sole THEN EmptyPara(FreshId(d) + 300) ELSE <<>>
             deleted == SubSeq(d, 1, from) \o fill \o SubSeq(d, to + 1, Len(d))
             MapDelete(p) == IF p <= from THEN p
                             ELSE IF p >= to THEN p - (to - from) + Len(fill)
                             ELSE from + Len(fill)
             insertPos == MapDelete(pos)
         IN IF ~Resolvable(deleted, insertPos) THEN [ret |-> "throws", trs |-> <<>>]
            ELSE LET at == FitPos(deleted, insertPos, "exam_block")
                     newDoc == Insert(deleted, insertPos, node)
                     MapInsert(p) == IF at # -1 /\ p >= at THEN p + Len(node) ELSE p
                     inText(p) == p >= 1 /\ newDoc[p].k = "open" /\ newDoc[p].ty = "paragraph"
                     mHead == MapInsert(MapDelete(st.head))
                     mAnchor == MapInsert(MapDelete(st.anchor))
                     newHead == SelectionNear(newDoc, mHead)
                     newAnchor == IF ~inText(mHead) THEN newHead
                                  ELSE IF inText(mAnchor) THEN mAnchor ELSE mHead
                 IN [ret |-> "true",
                     trs |-> <<[doc |-> newDoc, anchor |-> newAnchor, head |-> newHead]>>]

(* lines 562-601 *)
commandIndent(st, dispatch) ==
    LET from == Min(st.anchor, st.head)
        anc == Ancestors(st.doc, from)
        d == findCurrentDepth(st.doc, anc)
    IN IF d = 0 THEN False
       ELSE LET nsp == nodeStartInParent(st.doc, anc, d)
            IN IF nsp.index <= 0 THEN False
               ELSE LET prev == nsp.kids[nsp.index]
                    IN IF ~isExam(st.doc, prev) THEN False
                       ELSE LET nodeStart == nsp.nodeStart
                                currentEnd == nodeStart + nodeSize(st.doc, nsp.kids[nsp.index + 1])
                                current == SubSeq(st.doc, nodeStart + 1, currentEnd)
                                prevEndInside == (prev - 1) + nodeSize(st.doc, prev) - 1
                                updated == bumpLevels(current, 1)
                            IN Moved(st, dispatch, nodeStart, currentEnd, prevEndInside, updated,
                                     FALSE)

(* lines 603-631 *)
commandOutdent(st, dispatch) ==
    LET from == Min(st.anchor, st.head)
        anc == Ancestors(st.doc, from)
        d == findCurrentDepth(st.doc, anc)
    IN IF d = 0 THEN False
       ELSE LET parent == NodeAtDepth(anc, d - 1)
            IN IF ~isExam(st.doc, parent) THEN False
               ELSE LET nsp == nodeStartInParent(st.doc, anc, d)
                        nodeStart == nsp.nodeStart
                        currentEnd == nodeStart + nodeSize(st.doc, nsp.kids[nsp.index + 1])
                        current == SubSeq(st.doc, nodeStart + 1, currentEnd)
                        parentEnd == nsp.parentStart + nodeSize(st.doc, parent)
                        insertAfter == parentEnd               \* afterParent, line 618
                        currentLevel == clampLevel(current[1].level)
                    IN IF currentLevel <= 1 THEN False
                       ELSE Moved(st, dispatch, nodeStart, currentEnd, insertAfter,
                                  bumpLevels(current, -1), Len(nsp.kids) = 1)

(* lines 647-669: a new exam_block of the same level, holding one empty
   paragraph, right after the innermost exam_block around $from; the
   selection lies before it and is mapped onto itself *)
newPeer(st, dispatch) ==
    LET from == Min(st.anchor, st.head)
        anc == Ancestors(st.doc, from)
        d == findCurrentDepth(st.doc, anc)
    IN IF d = 0 THEN False
       ELSE IF ~dispatch THEN [ret |-> "true", trs |-> <<>>]
       ELSE LET node == anc[d]
                level == st.doc[node].level
                insertPos == MatchClose(st.doc, node)                \* $from.after(d)
                id == FreshId(st.doc)
                newBlock == <<ExamTok("open", id, level)>> \o EmptyPara(id + 300)
                                \o <<ExamTok("close", id, level)>>
                MapInsert(p) == IF p >= insertPos THEN p + Len(newBlock) ELSE p
            IN [ret |-> "true",
                trs |-> <<[doc |-> Insert(st.doc, insertPos, newBlock),
                           anchor |-> MapInsert(st.anchor),
                           head |-> MapInsert(st.head)]>>]

(* every forest of exactly n exam_blocks; a block holds a paragraph and then
   its child blocks, or its child blocks alone *)
RECURSIVE ExamShapes(_)
ExamShapes(n) ==
    IF n = 0 THEN {<<>>}
    ELSE UNION { { <<[para |-> para, kids |-> kids]>> \o rest :
                     para \in (IF k = 1 THEN {TRUE} ELSE BOOLEAN),
                     kids \in ExamShapes(k - 1),
                     rest \in ExamShapes(n - k) } :
                 k \in 1..n }

(* the tokens of a forest of exam_blocks at a depth; the level of a block
   is the one of its depth *)
RECURSIVE ExamTokens(_, _, _)
ExamTokens(forest, next, depth) ==
    IF forest = <<>> THEN [toks |-> <<>>, next |-> next]
    ELSE LET n == Head(forest)
             inner == ExamTokens(n.kids, next + 1, depth + 1)
             rest == ExamTokens(Tail(forest), inner.next, depth)
         IN [toks |-> <<ExamTok("open", next, clampLevel(depth))>>
                      \o (IF n.para THEN EmptyPara(next + 100) ELSE <<>>)
                      \o inner.toks
                      \o <<ExamTok("close", next, clampLevel(depth))>>
                      \o rest.toks,
             next |-> rest.next]

ExamDocs == { ExamTokens(f, 1, 1).toks : f \in UNION { ExamShapes(n) : n \in 1..MaxExamBlocks } }

InitExam ==
    /\ BatchIdle
    /\ schema = ExamBlock
    /\ doc \in ExamDocs
    /\ anchor \in TextPositions(doc)
    /\ head = anchor
    /\ call = [cmd |-> "none", dispatch |-> FALSE]
    /\ ret = "none"
    /\ dispatched = <<>>
    /\ pre = [doc |-> <<>>, anchor |-> 0, head |-> 0]
    /\ origin = Nil
    /\ decorations = {}

ExamIndent == \E dispatch \in BOOLEAN : Run("indent", dispatch, commandIndent(State, dispatch))

ExamOutdent == \E dispatch \in BOOLEAN : Run("outdent", dispatch, commandOutdent(State, dispatch))

(* the document is kept to MaxExamBlocks exam_blocks *)
ExamNewBlock ==
    \E dispatch \in BOOLEAN :
        /\ dispatch =>
              Cardinality({i \in 1..Len(doc) : doc[i].k = "open" /\ doc[i].ty = "exam_block"})
                  < MaxExamBlocks
        /\ Run("newpeer", dispatch, newPeer(State, dispatch))

NextExam == ExamIndent \/ ExamOutdent \/ ExamNewBlock

SpecExam == InitExam /\ [][NextExam]_vars


(***************************************************************************)
(* Reading a document as a tree.                                           *)
(***************************************************************************)
From(st) == Min(st.anchor, st.head)

(* the node around the node that opens with token i, 0 for the document *)
ParentTok(d, i) ==
    LET anc == Ancestors(d, i - 1)
    IN IF anc = <<>> THEN 0 ELSE anc[Len(anc)]

(* the innermost part around position pos, 0 when there is none *)
PartAround(d, pos) ==
    LET anc == Ancestors(d, pos)
        ks == {k \in 1..Len(anc) : d[anc[k]].ty = "part"}
    IN IF ks = {} THEN 0 ELSE anc[CHOOSE k \in ks : \A m \in ks : m <= k]

(* the Container a command acts on: the innermost part around the selection's start *)
CurrentPart(st) == PartAround(st.doc, From(st))

(* the parts among the siblings before the node that opens with token i *)
PartSiblingsBefore(d, i) ==
    {j \in 1..(i - 1) : d[j].k = "open" /\ d[j].ty = "part" /\ ParentTok(d, j) = ParentTok(d, i)}

SetMax(S) == CHOOSE x \in S : \A y \in S : y <= x

Find(d, tok) == CHOOSE i \in 1..Len(d) : d[i] = tok

Has(d, tok) == \E i \in 1..Len(d) : d[i] = tok

Subtree(d, i) == SubSeq(d, i, MatchClose(d, i))

CanIndent(st) == CurrentPart(st) # 0 /\ PartSiblingsBefore(st.doc, CurrentPart(st)) # {}

CanOutdent(st) ==
    /\ CurrentPart(st) # 0
    /\ ParentTok(st.doc, CurrentPart(st)) # 0
    /\ st.doc[ParentTok(st.doc, CurrentPart(st))].ty = "part"

Unchanged == doc = pre.doc /\ anchor = pre.anchor /\ head = pre.head

(* C4: an indent of a Container that has a Container among the siblings
   before it returns true and makes the whole subtree the last child of the
   nearest such sibling, the siblings between the two being skipped. *)
C4_IndentNests ==
    (call.cmd = "indent" /\ call.dispatch /\ CanIndent(pre)) =>
        /\ ret = "true"
        /\ LET cur == CurrentPart(pre)
               near == SetMax(PartSiblingsBefore(pre.doc, cur))
               c == Find(doc, pre.doc[cur])
               n == Find(doc, pre.doc[near])
           IN /\ PartAround(doc, c - 1) = n
              /\ Subtree(doc, c) = Subtree(pre.doc, cur)
              /\ \A j \in MatchClose(doc, c)..MatchClose(doc, n) : doc[j].k = "close"

(* C5: an outdent of a Container whose parent is a Container returns true
   and moves the subtree to the place right after that parent, among the
   children of the parent's parent; the other children of the parent stay,
   in their order. *)
C5_OutdentAfterParent ==
    (call.cmd = "outdent" /\ call.dispatch /\ CanOutdent(pre)) =>
        /\ ret = "true"
        /\ LET cur == CurrentPart(pre)
               par == ParentTok(pre.doc, cur)
               curEnd == MatchClose(pre.doc, cur)
               parEnd == MatchClose(pre.doc, par)
           IN doc = SubSeq(pre.doc, 1, cur - 1) \o SubSeq(pre.doc, curEnd + 1, parEnd)
                    \o Subtree(pre.doc, cur) \o SubSeq(pre.doc, parEnd + 1, Len(pre.doc))

(* C6: an indent of a Container with no Container among the siblings before
   it (it is the first child, or only other blocks come before it) returns
   false and leaves the document and the selection as they were. *)
C6_IndentRefused ==
    (call.cmd = "indent" /\ ~CanIndent(pre)) =>
        (ret = "false" /\ dispatched = <<>> /\ Unchanged)

(* a part with a paragraph, but no part, before it was indented with a
   dispatch function and refused *)
C6_Witness ==
    /\ call.cmd = "indent" /\ call.dispatch /\ ret = "false"
    /\ CurrentPart(pre) # 0
    /\ PartSiblingsBefore(pre.doc, CurrentPart(pre)) = {}
    /\ \E j \in 1..(CurrentPart(pre) - 1) :
          /\ pre.doc[j] = Tok("open", "paragraph", pre.doc[j].id)
          /\ ParentTok(pre.doc, j) = ParentTok(pre.doc, CurrentPart(pre))

(* C7: an outdent of a Container whose parent is not a Container (the
   document root, a solution, any other node) returns false and leaves the
   document and the selection as they were. *)
C7_OutdentRefused ==
    (call.cmd = "outdent" /\ ~CanOutdent(pre)) =>
        (ret = "false" /\ dispatched = <<>> /\ Unchanged)

(* a part directly inside a solution was outdented with a dispatch function
   and refused *)
C7_Witness ==
    /\ call.cmd = "outdent" /\ call.dispatch /\ ret = "false"
    /\ CurrentPart(pre) # 0
    /\ ParentTok(pre.doc, CurrentPart(pre)) # 0
    /\ pre.doc[ParentTok(pre.doc, CurrentPart(pre))].ty = "solution"

(* C8: an outdent that runs right after a successful indent, on the state the
   indent left, gives back the document the indent started from. *)
C8_RoundTrip ==
    (call.cmd = "outdent" /\ call.dispatch /\ origin # Nil) => doc = origin[1].doc

(* the part right before the current one, with nothing between them *)
PartRightBefore(st) ==
    /\ CurrentPart(st) > 1
    /\ st.doc[CurrentPart(st) - 1].k = "close"
    /\ st.doc[CurrentPart(st) - 1].ty = "part"

(* C8, amended: when the nearest Container sibling before the current one is
   the sibling right before it, an outdent that runs right after a successful
   indent gives back the document the indent started from. *)
C8_RoundTripAdjacent ==
    (call.cmd = "outdent" /\ call.dispatch /\ origin # Nil /\ PartRightBefore(origin[1]))
        => doc = origin[1].doc

(* an indent nested a part under the part right before it, and the outdent
   that followed moved it back *)
C8_Witness ==
    /\ call.cmd = "outdent" /\ call.dispatch /\ ret = "true"
    /\ origin # Nil
    /\ PartRightBefore(origin[1])
    /\ pre.doc # origin[1].doc
    /\ doc = origin[1].doc

(* C9: a command commits one transaction that holds the removal, the
   re-insertion and the selection together, or commits nothing: the document
   after a command is the one before it, or has the same nodes with the
   moved subtree whole and the selection the transaction set. *)
C9_Atomic ==
    /\ Len(dispatched) <= 1
    /\ call.cmd # "none" =>
          \/ dispatched = <<>> /\ Unchanged
          \/ /\ dispatched = <<State>>
             /\ ret = "true" /\ call.dispatch
             /\ Len(doc) = Len(pre.doc)
             /\ \A i \in 1..Len(pre.doc) : Has(doc, pre.doc[i])
             /\ Subtree(doc, Find(doc, pre.doc[CurrentPart(pre)]))
                  = Subtree(pre.doc, CurrentPart(pre))
             /\ Resolvable(doc, anchor) /\ Resolvable(doc, head)

(* an indent committed a transaction that moved a part and its selection *)
C9_Witness ==
    /\ call.cmd = "indent" /\ Len(dispatched) = 1
    /\ doc # pre.doc
    /\ anchor # pre.anchor

(* C10: after a move the selection is where it was relative to the moved
   Container's content: each end keeps its offset from the content start,
   held within the content of the moved subtree. *)
C10_SelectionFollows ==
    (call.cmd \in {"indent", "outdent"} /\ dispatched # <<>>) =>
        LET cur == CurrentPart(pre)
            c == Find(doc, pre.doc[cur])
            lo == c
            hi == MatchClose(doc, c) - 1
            Clamp(x) == Max(lo, Min(hi, x))
        IN /\ anchor = Clamp(lo + (pre.anchor - cur))
           /\ head = Clamp(lo + (pre.head - cur))


(***************************************************************************)
(* Commands and attributes.                                                *)
(***************************************************************************)
(* the part Divs of a forest in document order, each with its depth *)
RECURSIVE PartList(_, _)
PartList(blocks, above) ==
    IF blocks = <<>> THEN <<>>
    ELSE LET b == Head(blocks)
         IN (IF is_part_div(b)
             THEN <<[depth |-> above + 1, attributes |-> b.attributes]>>
                  \o PartList(b.content, above + 1)
             ELSE IF b.t = "Div" THEN PartList(b.content, above)
             ELSE <<>>)
            \o PartList(Tail(blocks), above)

(* the value of the points attribute, under the first of its names that is set *)
PointsOf(attributes) ==
    LuaOr(attributes["points"], LuaOr(attributes["point"],
    LuaOr(attributes["pts"], attributes["p"])))

Bracket(v) == IF v = Nil THEN <<>> ELSE <<"[">> \o v[1] \o <<"]">>

HasNonSpace(v) == v # Nil /\ \E i \in 1..Len(v[1]) : v[1][i] \notin {" ", "\t", "\n"}

(* C11: the command of a depth-1 part is \titledquestion{title} exactly when
   the title holds a character that is no whitespace, \question otherwise,
   and [points] follows it exactly when the points normalize to a value. *)
C11_QuestionCommand ==
    bpc = "done" =>
        LET parts == PartList(input, 0)
            cmds == Commands(transformed)
        IN /\ Len(cmds) = Len(parts)
           /\ \A i \in 1..Len(parts) :
                 parts[i].depth = 1 =>
                     cmds[i].text =
                         (IF HasNonSpace(parts[i].attributes["title"])
                          THEN <<"\\titledquestion{">> \o parts[i].attributes["title"][1] \o <<"}">>
                          ELSE <<"\\question">>)
                         \o Bracket(normalize_points(PointsOf(parts[i].attributes)))

(* title Warm-up and points 2.5 at depth 1 *)
C11_Witness ==
    /\ bpc = "done"
    /\ input = <<AttrPart(Some(<<"Warm-up">>), "points", Some(<<"2", ".", "5">>), <<>>)>>
    /\ transformed = <<RawBlock("tex", <<"\\titledquestion{", "Warm-up", "}", "[", "2", ".", "5", "]">>)>>

(* C12: the command of a part at depth 2 or more is its role command
   (\part, \subpart, \subsubpart) followed by nothing but the optional
   [points] bracket: the title is not in it. *)
C12_NoTitleBelowQuestion ==
    bpc = "done" =>
        LET parts == PartList(input, 0)
            cmds == SelectSeq(InOrder(transformed),
                              LAMBDA b : IsRawTex(b) /\ ~IsBegin(b) /\ ~IsEnd(b))
        IN /\ Len(cmds) = Len(parts)
           /\ \A i \in 1..Len(parts) :
                 parts[i].depth >= 2 =>
                     \E v \in {Nil, PointsOf(parts[i].attributes),
                               normalize_points(PointsOf(parts[i].attributes))} :
                         cmds[i].text = <<RoleOfDepth[Clamp4(parts[i].depth)]>> \o Bracket(v)

(* a string without the whitespace at its two ends *)
Trimmed(x) ==
    LET keep == {i \in 1..Len(x) : x[i] \notin {" ", "\t", "\n"}}
    IN IF keep = {} THEN <<>>
       ELSE SubSeq(x, CHOOSE i \in keep : \A j \in keep : i <= j,
                      CHOOSE i \in keep : \A j \in keep : j <= i)

AllDigits(x, from, to) ==
    \A i \in from..to : x[i] \in {"0", "1", "2", "3", "4", "5", "6", "7", "8", "9"}

(* ^\d+(\.\d+)?$ *)
PlainDecimal(x) ==
    \E k \in 1..Len(x) :
        /\ AllDigits(x, 1, k)
        /\ \/ k = Len(x)
           \/ k + 2 <= Len(x) /\ x[k + 1] = "." /\ AllDigits(x, k + 2, Len(x))

NormalPoints(v) ==
    IF v # Nil /\ PlainDecimal(Trimmed(v[1])) THEN Some(Trimmed(v[1])) ELSE Nil

(* C13: the points are normalized to the trimmed value exactly when that is
   digits, optionally followed by a dot and at least one digit, and to no
   value otherwise; the command of the part carries exactly that value. *)
C13_PointsPattern ==
    bpc = "done" =>
        LET parts == PartList(input, 0)
            cmds == Commands(transformed)
        IN \A i \in 1..Len(parts) :
              LET raw == PointsOf(parts[i].attributes)
              IN /\ normalize_points(raw) = NormalPoints(raw)
                 /\ parts[i].attributes["title"] = Nil =>
                       cmds[i].text = <<RoleOfDepth[Clamp4(parts[i].depth)]>>
                                        \o Bracket(NormalPoints(raw))

(* C14: normalizing a normalized value gives the same value: an accepted
   value passes a second time unchanged, no value stays no value. *)
C14_PointsIdempotent ==
    bpc = "done" =>
        LET parts == PartList(input, 0)
            cmds == Commands(transformed)
        IN \A i \in 1..Len(parts) :
              LET once == normalize_points(PointsOf(parts[i].attributes))
              IN /\ normalize_points(once) = once
                 /\ parts[i].attributes["title"] = Nil =>
                       cmds[i].text = <<RoleOfDepth[Clamp4(parts[i].depth)]>>
                                        \o Bracket(normalize_points(once))

(* a value that the first pass trimmed and accepted, and a value it refused *)
C14_Witness ==
    /\ bpc = "done"
    /\ Len(PartList(input, 0)) = 1
    /\ LET raw == PointsOf(PartList(input, 0)[1].attributes)
       IN /\ raw # Nil
          /\ normalize_points(raw) # Nil
          /\ normalize_points(raw) # raw
          /\ transformed = <<RawBlock("tex", <<"\\question">> \o Bracket(normalize_points(raw)))>>

(* the forest with the points attribute taken off every part whose points
   are no plain decimal *)
RECURSIVE WithoutInvalidPoints(_)
WithoutInvalidPoints(blocks) ==
    [i \in 1..Len(blocks) |->
        LET b == blocks[i] IN
        IF b.t # "Div" THEN b
        ELSE Div(WithoutInvalidPoints(b.content), b.identifier, b.classes,
                 IF is_part_div(b) /\ NormalPoints(PointsOf(b.attributes)) = Nil
                 THEN [b.attributes EXCEPT !["points"] = Nil, !["point"] = Nil,
                                           !["pts"] = Nil, !["p"] = Nil]
                 ELSE b.attributes)]

(* C15: a part whose points are invalid gives the command of the same part
   without a points attribute: no bracket, the value nowhere in the output. *)
C15_InvalidPointsDropped ==
    bpc = "done" => transformed = transform_blocks(WithoutInvalidPoints(input), 0)

(***************************************************************************)
(* The questions environment in a top-level stream.                        *)
(***************************************************************************)
IsBeginQuestions(b) == IsRawTex(b) /\ b.text = <<"\\begin{", "questions", "}">>

IsEndQuestions(b) == IsRawTex(b) /\ b.text = <<"\\end{", "questions", "}">>

IsQuestion(b) == IsRawTex(b) /\ Len(b.text) >= 1 /\ b.text[1] \in {"\\question", "\\titledquestion{"}

BeginsOf(t) == {i \in 1..Len(t) : IsBeginQuestions(t[i])}

(* the first question command between the begin marker at i and the end
   marker that follows it (or the end of the stream), 0 when there is none *)
FirstQuestionAfter(t, i) ==
    LET qs == {f \in (i + 1)..Len(t) :
                  /\ IsQuestion(t[f])
                  /\ \A k \in (i + 1)..f : ~IsEndQuestions(t[k])}
    IN IF qs = {} THEN 0 ELSE CHOOSE f \in qs : \A g \in qs : f <= g

(* the number of blocks other than begin markers among the first i of t *)
OthersUpTo(t, i) == Cardinality({k \in 1..i : ~IsBeginQuestions(t[k])})

Others(t) == SelectSeq(t, LAMBDA b : ~IsBeginQuestions(b))

(* the begin markers that open an environment: those that do not lie inside
   the environment an earlier begin marker opened *)
OpeningBegins(t) ==
    {i \in BeginsOf(t) :
        \A j \in BeginsOf(t) : j < i => \E k \in (j + 1)..(i - 1) : IsEndQuestions(t[k])}

NeedsRelocation(t) == \E i \in BeginsOf(t) : FirstQuestionAfter(t, i) > i + 1

(* C16: when blocks that are no question command lie between the begin
   marker and the first question command of its environment, the output has
   the marker right before that command and the displaced blocks before the
   marker; the output is a permutation of the stream that keeps every block
   but the marker in its order; a stream that needs no move is unchanged. *)
C16_Relocation ==
    bpc = "done" =>
        /\ Len(output) = Len(transformed)
        /\ Others(output) = Others(transformed)
        /\ \A i \in OpeningBegins(transformed) :
              LET f == FirstQuestionAfter(transformed, i)
              IN \E p \in BeginsOf(output) :
                    IF f = 0 THEN OthersUpTo(output, p) = OthersUpTo(transformed, i)
                    ELSE /\ p < Len(output)
                         /\ IsQuestion(output[p + 1])
                         /\ OthersUpTo(output, p + 1) = OthersUpTo(transformed, f)
        /\ ~NeedsRelocation(transformed) => output = transformed

(* a paragraph between the begin marker and the first question was moved out *)
C16_Witness ==
    /\ bpc = "done"
    /\ transformed = <<BeginQuestions, Para, RawBlock("tex", <<"\\question">>), EndQuestions>>
    /\ output = <<Para, BeginQuestions, RawBlock("tex", <<"\\question">>), EndQuestions>>

(* C17: the relocation applied to its own output changes nothing. *)
C17_RelocateIdempotent ==
    bpc = "done" => relocate_questions_preface(output) = output

(***************************************************************************)
(* Solutions.                                                              *)
(***************************************************************************)
(* the solution Divs of a forest in document order, each with the number of
   part Divs around it *)
RECURSIVE SolutionList(_, _)
SolutionList(blocks, above) ==
    IF blocks = <<>> THEN <<>>
    ELSE LET b == Head(blocks)
         IN (IF is_part_div(b) THEN SolutionList(b.content, above + 1)
             ELSE IF is_solution_div(b)
             THEN <<[above |-> above, div |-> b]>> \o SolutionList(b.content, above)
             ELSE IF b.t = "Div" THEN SolutionList(b.content, above)
             ELSE <<>>)
            \o SolutionList(Tail(blocks), above)

(* the forest with every solution Div replaced by its children *)
RECURSIVE WithoutSolutions(_)
WithoutSolutions(blocks) ==
    Flatten([i \in 1..Len(blocks) |->
        LET b == blocks[i] IN
        IF b.t # "Div" THEN <<b>>
        ELSE IF ~is_part_div(b) /\ is_solution_div(b) THEN WithoutSolutions(b.content)
        ELSE <<Div(WithoutSolutions(b.content), b.identifier, b.classes, b.attributes)>>])

SpaceOf(attributes) ==
    LuaOr(attributes["space"], LuaOr(attributes["data-space"], attributes["sp"]))

IsBeginSolution(b) == IsBegin(b) /\ b.text[2] = "solution"

(* the positions of the \begin{solution} markers of a flat stream, in order *)
SolutionStarts(flat) ==
    LET at == {p \in 1..Len(flat) : IsBeginSolution(flat[p])}
    IN [k \in 1..Cardinality(at) |->
           CHOOSE p \in at : Cardinality({q \in at : q <= p}) = k]

(* C18: a solution is emitted as \begin{solution}, with [space] exactly when
   the space is a non-empty string, then its children transformed at the
   depth of the solution, then \end{solution}; a part inside a solution has
   the role command it has with the solution's children in its place. *)
C18_Solution ==
    bpc = "done" =>
        LET sols == SolutionList(input, 0)
            flat == InOrder(transformed)
            starts == SolutionStarts(flat)
        IN /\ Len(starts) = Len(sols)
           /\ \A k \in 1..Len(sols) :
                 LET space == SpaceOf(sols[k].div.attributes)
                     inner == InOrder(transform_blocks(sols[k].div.content, sols[k].above))
                     p == starts[k]
                 IN /\ flat[p].text = <<"\\begin{", "solution", "}">>
                                        \o (IF space # Nil /\ space[1] # <<>>
                                            THEN Bracket(space) ELSE <<>>)
                    /\ p + Len(inner) + 1 <= Len(flat)
                    /\ SubSeq(flat, p + 1, p + Len(inner)) = inner
                    /\ flat[p + Len(inner) + 1].text = <<"\\end{", "solution", "}">>
           /\ Commands(transformed) = Commands(transform_blocks(WithoutSolutions(input), 0))

(* a solution with a space, inside a question, around a part: the part is a \part *)
C18_Witness ==
    /\ bpc = "done"
    /\ input = <<PartDiv(<<AttrSolution("space", Some(<<"2", "i">>), <<PartDiv(<<>>)>>)>>)>>
    /\ transformed = <<RawBlock("tex", <<"\\question">>),
                       RawBlock("tex", <<"\\begin{", "solution", "}", "[", "2", "i", "]">>),
                       RawBlock("tex", <<"\\part">>),
                       RawBlock("tex", <<"\\end{", "solution", "}">>)>>

(***************************************************************************)
(* Wrapper Divs.                                                           *)
(***************************************************************************)
(* the Divs of an input forest that are neither part nor solution, in
   document order, each with the number of part Divs in it *)
RECURSIVE InputWrappers(_)
InputWrappers(blocks) ==
    IF blocks = <<>> THEN <<>>
    ELSE LET b == Head(blocks)
         IN (IF b.t # "Div" THEN <<>>
             ELSE IF is_part_div(b) \/ is_solution_div(b) THEN InputWrappers(b.content)
             ELSE <<[identifier |-> b.identifier, classes |-> b.classes,
                     attributes |-> b.attributes,
                     parts |-> Len(PartDepths(b.content, 0))]>>
                  \o InputWrappers(b.content))
            \o InputWrappers(Tail(blocks))

(* the Divs of an output stream, in document order, each with the number of
   role commands in it *)
RECURSIVE OutputDivs(_)
OutputDivs(blocks) ==
    IF blocks = <<>> THEN <<>>
    ELSE LET b == Head(blocks)
         IN (IF b.t # "Div" THEN <<>>
             ELSE <<[identifier |-> b.identifier, classes |-> b.classes,
                     attributes |-> b.attributes,
                     parts |-> Len(Commands(b.content))]>>
                  \o OutputDivs(b.content))
            \o OutputDivs(Tail(blocks))

(* C19: every part Div of the input, inside however many Divs that are no
   parts, is converted: the output holds one role command for each, in
   document order and inside the same wrapper, no part Div is left, and each
   wrapper Div is in the output with its identifier, classes and attributes. *)
C19_NestedConverted ==
    bpc = "done" =>
        /\ Len(Commands(transformed)) = Len(PartDepths(input, 0))
        /\ OutputDivs(transformed) = InputWrappers(input)
        /\ \A i \in 1..Len(Commands(transformed)) :
              Commands(transformed)[i].text[1] \in
                  (IF PartDepths(input, 0)[i] = 1 THEN {"\\question", "\\titledquestion{"}
                   ELSE {RoleOfDepth[Clamp4(PartDepths(input, 0)[i])]})

(* a part inside a wrapper inside a wrapper *)
C19_Witness ==
    /\ bpc = "done"
    /\ input = <<WrapperDiv(<<WrapperDiv(<<PartDiv(<<PartDiv(<<>>)>>)>>)>>)>>
    /\ transformed = <<WrapperDiv(<<WrapperDiv(<<RawBlock("tex", <<"\\question">>),
                                                 BeginEnv("parts"),
                                                 RawBlock("tex", <<"\\part">>),
                                                 EndEnv("parts")>>)>>)>>

(***************************************************************************)
(* Environment pairs and runs.                                             *)
(***************************************************************************)
(* the part Divs of a forest in document order, each with its depth and
   whether it has children *)
RECURSIVE PartKids(_, _)
PartKids(blocks, above) ==
    IF blocks = <<>> THEN <<>>
    ELSE LET b == Head(blocks)
         IN (IF is_part_div(b)
             THEN <<[depth |-> above + 1, kids |-> Len(b.content)]>>
                  \o PartKids(b.content, above + 1)
             ELSE IF b.t = "Div" THEN PartKids(b.content, above)
             ELSE <<>>)
            \o PartKids(Tail(blocks), above)

(* the number of maximal runs of part Divs among the children of the part
   Divs of a forest *)
RECURSIVE RunCount(_)
RunCount(blocks) ==
    IF blocks = <<>> THEN 0
    ELSE LET b == Head(blocks)
             kids == b.content
             IsKidPart(j) == j >= 1 /\ j <= Len(kids) /\ is_part_div(kids[j])
         IN (IF b.t # "Div" THEN 0
             ELSE (IF is_part_div(b)
                   THEN Cardinality({j \in 1..Len(kids) : IsKidPart(j) /\ ~IsKidPart(j - 1)})
                   ELSE 0)
                  + RunCount(kids))
            + RunCount(Tail(blocks))

IsRunBegin(b) == IsBegin(b) /\ b.text[2] # "solution"

(* C20: a part that has no children is followed by an empty environment
   pair: the begin marker of its children's environment and, right after
   it, the matching end marker. *)
C20_EmptyPair ==
    bpc = "done" =>
        LET parts == PartKids(input, 0)
            flat == InOrder(transformed)
            at == {p \in 1..Len(flat) : IsCommand(flat[p])}
        IN \A i \in 1..Len(parts) :
              parts[i].kids = 0 =>
                  LET p == CHOOSE q \in at : Cardinality({x \in at : x <= q}) = i
                      env == EnvOfDepth[Clamp4(parts[i].depth + 1)]
                  IN /\ p + 2 <= Len(flat)
                     /\ flat[p + 1] = BeginEnv(env)
                     /\ flat[p + 2] = EndEnv(env)

(* C20, amended: no empty environment pair is emitted for parts: the output
   has one begin marker for each maximal run of part children, each directly
   followed by the role command of the run's first part, and a part without
   part children gets no pair. *)
C20_NoEmptyPair ==
    bpc = "done" =>
        LET flat == InOrder(transformed)
        IN /\ Cardinality({p \in 1..Len(flat) : IsRunBegin(flat[p])}) = RunCount(input)
           /\ \A p \in 1..Len(flat) :
                 IsRunBegin(flat[p]) => (p < Len(flat) /\ IsCommand(flat[p + 1]))

(* a question whose only child is a part without children: one pair around
   the \part, none after it *)
C20_Witness ==
    /\ bpc = "done"
    /\ input = <<PartDiv(<<PartDiv(<<>>)>>)>>
    /\ transformed = <<RawBlock("tex", <<"\\question">>), BeginEnv("parts"),
                       RawBlock("tex", <<"\\part">>), EndEnv("parts")>>


(***************************************************************************)
(* The insert commands and the solutions of a document.                    *)
(***************************************************************************)
(* whether a solution is among the nodes around the selection's start *)
InSolution(st) ==
    LET anc == Ancestors(st.doc, From(st))
    IN \E k \in 1..Len(anc) : st.doc[anc[k]].ty = "solution"

(* C21: SolutionInsert succeeds only with a Container and no Solution among
   the nodes around the selection; in every other state (inside a Solution
   at any depth, outside every Container) it returns false and leaves the
   document and the selection as they were. *)
C21_SolutionInsertGuard ==
    call.cmd = "insertSolution" =>
        /\ ret = "true" => (CurrentPart(pre) # 0 /\ ~InSolution(pre))
        /\ (CurrentPart(pre) = 0 \/ InSolution(pre)) =>
              (ret = "false" /\ dispatched = <<>> /\ Unchanged)

(* SolutionInsert was called with a dispatch function in a part that lies
   inside a solution, not directly in the solution, and refused *)
C21_Witness ==
    /\ call.cmd = "insertSolution" /\ call.dispatch /\ ret = "false"
    /\ CurrentPart(pre) # 0
    /\ InSolution(pre)
    /\ LET anc == Ancestors(pre.doc, From(pre))
       IN Len(anc) >= 2 /\ pre.doc[anc[Len(anc) - 1]].ty = "part"

(* the solutions of a document, as their open tokens *)
SolutionsOf(d) == {i \in 1..Len(d) : d[i].k = "open" /\ d[i].ty = "solution"}

(* C22: in every state the commands PartInsert, SolutionInsert, indent and
   outdent reach from a document without nested Solutions, no Solution lies
   inside another Solution. *)
C22_NoSolutionInSolution ==
    \A i \in SolutionsOf(doc) : \A j \in SolutionsOf(doc) :
        i < j => MatchClose(doc, i) < j

(* SolutionInsert put a second solution into a document that had one *)
C22_Witness ==
    /\ call.cmd = "insertSolution" /\ dispatched # <<>>
    /\ doc # pre.doc
    /\ SolutionsOf(pre.doc) # {}
    /\ Cardinality(SolutionsOf(doc)) = Cardinality(SolutionsOf(pre.doc)) + 1


(***************************************************************************)
(* The structural level of a part.                                         *)
(***************************************************************************)
PartsOf(d) == {i \in 1..Len(d) : d[i].k = "open" /\ d[i].ty = "part"}

(* 1 + the number of parts the part that opens with token i lies in *)
LevelOf(d, i) == 1 + Cardinality({j \in PartsOf(d) : j < i /\ MatchClose(d, j) > i})

(* C23: the level is not stored and is derived again after every committed
   transaction: in every state the level attached to each part is 1 + the
   number of parts around it in the committed document, and a committed
   indent or outdent leaves the moved node's own token, with its type and
   attr id, as it was. *)
C23_LevelDerived ==
    /\ decorations = { [from |-> i - 1, to |-> MatchClose(doc, i), level |-> LevelOf(doc, i)] :
                         i \in PartsOf(doc) }
    /\ (call.cmd \in {"indent", "outdent"} /\ dispatched # <<>>) =>
          /\ Has(doc, pre.doc[CurrentPart(pre)])
          /\ Cardinality(PartsOf(doc)) = Cardinality(PartsOf(pre.doc))

(* a committed indent put a part one level deeper, with the parts inside it,
   and the plugin holds the new level *)
C23_Witness ==
    /\ call.cmd = "indent" /\ dispatched # <<>>
    /\ LET c == Find(doc, pre.doc[CurrentPart(pre)])
       IN /\ LevelOf(doc, c) = LevelOf(pre.doc, CurrentPart(pre)) + 1
          /\ \E dec \in decorations : dec.from = c - 1 /\ dec.level = LevelOf(doc, c)
          /\ \E j \in PartsOf(doc) : j > c /\ j < MatchClose(doc, c)


(***************************************************************************)
(* The batch side and the interactive side on the same document.           *)
(***************************************************************************)
(* the levels the plugin holds, in document order of the parts *)
LevelsInOrder ==
    [k \in 1..Cardinality(decorations) |->
        (CHOOSE dec \in decorations :
            Cardinality({e \in decorations : e.from < dec.from}) = k - 1).level]

(* the depth whose role command c is *)
DepthOfCommand(c) ==
    IF c.text[1] = "\\titledquestion{" THEN 1
    ELSE CHOOSE n \in 1..4 : RoleOfDepth[n] = c.text[1]

(* C24: the two sides give a Container the same role: for every part of a
   document, the depth of the role command the filter emits for it, which
   stops at 4, is the level the editor derives for it. *)
C24_SameRole ==
    bpc = "done" =>
        /\ Len(Commands(transformed)) = Len(LevelsInOrder)
        /\ \A k \in 1..Len(LevelsInOrder) :
              DepthOfCommand(Commands(transformed)[k]) = LevelsInOrder[k]

(* what the two sides do agree on: the role command of each part is the one
   of the editor's level, once that level is held at 4 *)
SameRoleUpTo4 ==
    bpc = "done" =>
        /\ Len(Commands(transformed)) = Len(LevelsInOrder)
        /\ \A k \in 1..Len(LevelsInOrder) :
              Commands(transformed)[k].text[1] = RoleOfDepth[Clamp4(LevelsInOrder[k])]


(***************************************************************************)
(* The environment a role command stands in.                               *)
(***************************************************************************)
(* every \part, \subpart and \subsubpart of a stream stands between the
   \begin and the \end of an environment of its own name; stack holds the
   names of the environments that are open *)
RECURSIVE InsideOwnEnv(_, _)
InsideOwnEnv(bs, stack) ==
    IF bs = <<>> THEN TRUE
    ELSE LET b == Head(bs) IN
         IF IsBegin(b) THEN InsideOwnEnv(Tail(bs), <<b.text[2]>> \o stack)
         ELSE IF IsEnd(b) THEN stack # <<>> /\ InsideOwnEnv(Tail(bs), Tail(stack))
         ELSE IF IsCommand(b) /\ DepthOfCommand(b) >= 2
         THEN /\ \E k \in 1..Len(stack) : stack[k] = EnvOfDepth[DepthOfCommand(b)]
              /\ InsideOwnEnv(Tail(bs), stack)
         ELSE InsideOwnEnv(Tail(bs), stack)

(* C25: in the output of the filter every role command of depth 2 or more
   lies inside an open environment pair named after its depth, for every
   input, also where a part is a child of a solution or of a wrapper Div
   inside a part. *)
C25_CommandInsideEnv ==
    bpc = "done" => InsideOwnEnv(InOrder(transformed), <<>>)

(* the same for the inputs in which every part below the top level is a
   direct child of a part *)
RECURSIVE PartsUnderParts(_, _)
PartsUnderParts(blocks, above) ==
    \A i \in 1..Len(blocks) :
        LET b == blocks[i] IN
        IF is_part_div(b) THEN PartsUnderParts(b.content, 1)
        ELSE IF b.t = "Div"
        THEN IF above = 0 THEN PartsUnderParts(b.content, 0)
             ELSE PartDepths(b.content, 0) = <<>>
        ELSE TRUE

CommandInsideEnvDirect ==
    (bpc = "done" /\ PartsUnderParts(input, 0)) => InsideOwnEnv(InOrder(transformed), <<>>)


(***************************************************************************)
(* What a move leaves alone.                                               *)
(***************************************************************************)
(* the document d with the tokens sub put in after its first p tokens *)
PutIn(d, p, sub) == SubSeq(d, 1, p) \o sub \o SubSeq(d, p + 1, Len(d))

(* C26: a committed indent or outdent changes only where the moved subtree
   is attached: the new document is the old one with the subtree of the
   current part taken out and put back whole, token for token, at one place
   between two nodes; so every block is there once, the subtree is as it
   was, and the other blocks keep their parent and their order. *)
C26_OnlyAttachmentChanges ==
    (call.cmd \in {"indent", "outdent"} /\ ret = "true" /\ call.dispatch) =>
        LET cur == CurrentPart(pre)
            sub == Subtree(pre.doc, cur)
            rest == Delete(pre.doc, cur - 1, MatchClose(pre.doc, cur))
        IN /\ dispatched # <<>>
           /\ \E p \in 0..Len(rest) :
                 /\ doc = PutIn(rest, p, sub)
                 /\ p > 0 /\ p < Len(rest) => ~(rest[p].k = "open" /\ rest[p].ty = "paragraph")

(* an outdent moved a part that holds blocks out of a part that holds other
   blocks after it *)
C26_Witness ==
    /\ call.cmd = "outdent" /\ ret = "true" /\ call.dispatch
    /\ doc # pre.doc
    /\ LET cur == CurrentPart(pre)
           par == PartAround(pre.doc, cur - 1)
       IN /\ MatchClose(pre.doc, cur) > cur + 1
          /\ par # 0
          /\ pre.doc[MatchClose(pre.doc, cur) + 1].k = "open"
          /\ MatchClose(pre.doc, cur) + 1 < MatchClose(pre.doc, par)


(***************************************************************************)
(* The children of a part of part.ts.                                      *)
(***************************************************************************)
ChildTypes(d, i) == [k \in 1..Len(ChildrenOf(d, i)) |-> d[ChildrenOf(d, i)[k]].ty]

(* C27: in every state PartInsert, indent and outdent reach, the children of
   each part match 'part_title part_points part_content?': a part is never a
   direct child of a part, it sits in a part_content or in another node that
   holds blocks. *)
C27_PartContentValid ==
    schema = StructuredPart =>
        \A i \in PartsOf(doc) :
            /\ ChildTypes(doc, i) \in {<<"part_title", "part_points">>,
                                       <<"part_title", "part_points", "part_content">>}
            /\ ParentTok(doc, i) # 0 => doc[ParentTok(doc, i)].ty # "part"

(* in the part.ts schema an indent committed its transaction in a document
   where a part lies inside the part_content of another *)
C27_Witness ==
    /\ schema = StructuredPart
    /\ call.cmd = "indent" /\ dispatched # <<>>
    /\ \E i \in PartsOf(doc) :
          /\ ParentTok(doc, i) # 0
          /\ doc[ParentTok(doc, i)].ty = "part_content"


(***************************************************************************)
(* Outdent of a nested part.                                               *)
(***************************************************************************)
(* the last command ran right after a committed indent, with the selection
   in the part that indent moved *)
InMovedPart ==
    /\ origin # Nil
    /\ CurrentPart(pre) # 0
    /\ pre.doc[CurrentPart(pre)] = origin[1].doc[CurrentPart(origin[1])]

(* C28: a part that was nested in another part can be outdented: an outdent
   of the part that a committed indent has just moved returns true. *)
C28_OutdentAfterIndent ==
    (call.cmd = "outdent" /\ InMovedPart) => ret = "true"

(* in the part.ts schema no outdent returns true *)
OutdentNeverTrue ==
    (schema = StructuredPart /\ call.cmd = "outdent") => ret = "false"

(* with a part that holds its blocks itself, an outdent right after an
   indent returns true *)
OutdentAfterIndentFlat ==
    (schema = FlatPart /\ call.cmd = "outdent" /\ InMovedPart) => ret = "true"


(***************************************************************************)
(* A command called without a dispatch function.                           *)
(***************************************************************************)
(* C29: indent, outdent and SolutionInsert called without a dispatch
   function change neither the document nor the selection, and return what
   the same command returns in the same state with a dispatch function. *)
C29_QueryPure ==
    /\ (call.cmd \in {"indent", "outdent", "insertSolution"} /\ ~call.dispatch) =>
          (dispatched = <<>> /\ Unchanged /\ ret \in {"true", "false"})
    /\ indent(State, FALSE).ret = indent(State, TRUE).ret
    /\ outdent(State, FALSE).ret = outdent(State, TRUE).ret
    /\ (anchor = head /\ FitsAtCursor(doc, anchor, "solution")) =>
          insertSolution(State, FALSE).ret = insertSolution(State, TRUE).ret

(* no command ends in a RangeError *)
NoThrow == ret # "throws"


(***************************************************************************)
(* The stored level of an exam_block.                                      *)
(***************************************************************************)
ExamsOf(d) == {i \in 1..Len(d) : d[i].k = "open" /\ d[i].ty = "exam_block"}

(* the innermost exam_block around the selection's start, 0 when there is none *)
ExamAround(st) ==
    LET anc == Ancestors(st.doc, From(st))
        ks == {k \in 1..Len(anc) : st.doc[anc[k]].ty = "exam_block"}
    IN IF ks = {} THEN 0 ELSE anc[CHOOSE k \in ks : \A m \in ks : m <= k]

(* the stored level of the exam_block with an id, 0 when the document has none *)
LevelById(d, id) ==
    LET is == {i \in ExamsOf(d) : d[i].id = id}
    IN IF is = {} THEN 0 ELSE d[CHOOSE i \in is : TRUE].level

(* the exam_blocks of the subtree that opens with token i, down to so many
   levels below it *)
ExamsWithin(d, i, below) ==
    {j \in ExamsOf(d) : /\ j >= i /\ j < MatchClose(d, i)
                        /\ Cardinality({m \in ExamsOf(d) : m >= i /\ m < j /\ MatchClose(d, m) > j})
                              <= below}

(* the blocks of a set have their level moved by delta, within 1..4 *)
Bumped(js, delta) ==
    \A j \in js : LevelById(doc, pre.doc[j].id) = clampLevel(pre.doc[j].level + delta)

(* C30: in the exam_block variant a committed indent raises the stored level
   of the moved block and of every exam_block inside it, at every depth, by
   exactly 1 within 1..4, and a committed outdent lowers them all by 1. *)
C30_LevelCascade ==
    (call.cmd \in {"indent", "outdent"} /\ dispatched # <<>>) =>
        Bumped(ExamsWithin(pre.doc, ExamAround(pre), Len(pre.doc)),
               IF call.cmd = "indent" THEN 1 ELSE -1)

(* what does hold: the moved block and the exam_blocks that are its direct
   children have their level moved by 1, and the blocks further down keep
   theirs *)
LevelOneDeep ==
    (call.cmd \in {"indent", "outdent"} /\ dispatched # <<>>) =>
        LET cur == ExamAround(pre) IN
        /\ Bumped(ExamsWithin(pre.doc, cur, 1), IF call.cmd = "indent" THEN 1 ELSE -1)
        /\ Bumped(ExamsWithin(pre.doc, cur, Len(pre.doc)) \ ExamsWithin(pre.doc, cur, 1), 0)


====
